---- MODULE Spec2Model ----
(***************************************************************************)
(* Carbon-stock estimation pipeline of the carbon monitoring system.       *)
(*                                                                         *)
(*   SpecFcd   findClosestData of the date-based route, run against a      *)
(*             provider whose answer for every half-width is fixed.        *)
(*   SpecCalc  the arithmetic of the snapshots and of the change report    *)
(*             (both monitoring routes), in fixed point.                   *)
(*   Spec      one request to a monitoring route (year-based or            *)
(*             date-based): validation, area, the two concurrently running *)
(*             epoch pipelines, Promise.all, the response.                 *)
(*                                                                         *)
(* Fixed point: a quantity with suffix E2 is an integer count of 0.01, E3  *)
(* of 0.001.  Number.toFixed(2) is RoundDiv to E2.                         *)
(***************************************************************************)
EXTENDS Integers, Sequences, FiniteSets, TLC

VARIABLES
  \* ---- SpecFcd: findClosestData
  fcdTarget,      \* targetDate
  fcdCounts,      \* the provider: half-width -> the answer to its count query
  monthsWindow,   \* the loop variable of findClosestData
  fcdQueries,     \* the half-widths whose count was queried, in order
  fcdOut,         \* NoValue while running, then the returned window or the error
  \* ---- SpecCalc: snapshot and change arithmetic
  calcIn,         \* the inputs: route, area, model outputs, epochs
  calcSnap,       \* epoch -> snapshot (NoValue until built)
  calcReport,     \* the change report (NoValue until built)
  \* ---- Spec: one request to a monitoring route
  route,          \* "year" or "date": which POST handler serves the request
  body,           \* the request body
  isInitialized,  \* earthEngine.ts: the provider session flag
  authCalls,      \* authentications and initialisations performed by the process
  postPc,         \* where POST is
  totalAreaHa,    \* POST's local of the year-based route (E3), NoValue before
  areaEvals,      \* number of polygon-area evaluations issued by the request
  epochPc,        \* epoch -> where its pipeline is
  epochLoc,       \* epoch -> the locals of its pipeline
  epochOut,       \* epoch -> NoValue | snapshot | error (the pipeline's promise)
  allOut,         \* Promise.all: [state, error], error the first rejection
  noData,         \* epoch -> the <<configuration, product>> pairs that held no observation
  sent,           \* epoch -> the inference requests sent, in order
  responses,      \* the responses POST returned, in order
  \* --- effective windows of the year-based feature extraction (SpecWin)
  winIn,          \* [year, now]: the requested year, the clock's year and month
  winAgb,         \* the window getSatelliteFeatures queries, NoValue before
  winSoc,         \* the window getSOCSatelliteFeatures queries, NoValue before
  \* --- feature records built from a provider result (SpecFeat)
  featIn,         \* [config, present]: the configuration, the bands of the result
  featOut,        \* the feature record posted to the inference service, NoValue before
  \* --- one request to the carbon-credit route /api/carbon (SpecCredit)
  crBody,         \* the request body: geometry, historicalYear, currentYear
  crPc,           \* where POST is
  crLog,          \* the land-cover queries issued and their answers, in order
  crStats,        \* "historical" / "current" -> the provider's statistics, NoValue before
  crResp,         \* the response POST returned, NoValue before
  \* --- the page and its map (SpecPage)
  polygon,        \* page.tsx: the polygon state, NoValue for null
  loading,        \* page.tsx: the loading state
  carbonData,     \* page.tsx: the carbonData state, NoValue for null
  error,          \* page.tsx: the error state, NoValue for null
  pageStartYear,      \* page.tsx: the start year selected
  pageEndYear,        \* page.tsx: the end year selected
  pending,        \* the calls of analyzePolygon that have not returned, in order
  drawnItems      \* MapComponent.tsx: the layers of the drawnItems feature group

fcdVars  == <<fcdTarget, fcdCounts, monthsWindow, fcdQueries, fcdOut>>
calcVars == <<calcIn, calcSnap, calcReport>>
reqVars  == <<route, body, isInitialized, authCalls, postPc, totalAreaHa, areaEvals, epochPc,
              epochLoc, epochOut, allOut, noData, sent, responses>>
winVars  == <<winIn, winAgb, winSoc>>
featVars == <<featIn, featOut>>
credVars == <<crBody, crPc, crLog, crStats, crResp>>
pageVars == <<polygon, loading, carbonData, error, pageStartYear, pageEndYear, pending, drawnItems>>
vars     == <<fcdVars, calcVars, reqVars, winVars, featVars, credVars, pageVars>>

NoValue == [none |-> TRUE]

-----------------------------------------------------------------------------
(* Bounds *)

\* Largest observation count a data product reports for one window.
MaxCount == 2

-----------------------------------------------------------------------------
(* Numbers *)

Abs(x) == IF x < 0 THEN -x ELSE x
Sign(x) == IF x < 0 THEN -1 ELSE 1

\* n / d rounded to the nearest integer, ties away from zero (d > 0):
\* Number.prototype.toFixed on the exact decimal value.
RoundDiv(n, d) ==
  Sign(n) * ((Abs(n) \div d) + (IF 2 * (Abs(n) % d) >= d THEN 1 ELSE 0))

\* a * b / d rounded as RoundDiv (b, d > 0), computed without the product a * b.
MulDivRound(a, b, d) ==
  Sign(a) * ((Abs(a) \div d) * b + RoundDiv((Abs(a) % d) * b, d))

\* parseFloat(x.toFixed(2)) of a quantity held in E2, E3, E4 or E5.
ToFixed2E2(x) == x
ToFixed2E3(x) == RoundDiv(x, 10)
ToFixed2E4(x) == RoundDiv(x, 100)
ToFixed2E5(x) == RoundDiv(x, 1000)

-----------------------------------------------------------------------------
(* Dates: [y, m, d], what new Date("YYYY-MM-DD") ... toISOString() prints for *)
(* a process running in UTC.                                                  *)

IsLeap(y) == (y % 4 = 0 /\ y % 100 # 0) \/ y % 400 = 0

DaysInMonth(y, m) ==
  IF m = 2 THEN (IF IsLeap(y) THEN 29 ELSE 28)
  ELSE IF m \in {4, 6, 9, 11} THEN 30 ELSE 31

\* date.setMonth(date.getMonth() + k): the day of the month is kept and a day
\* past the end of the month rolls over into the next month.
SetMonthRelative(date, k) ==
  LET total == date.y * 12 + (date.m - 1) + k
      y2    == total \div 12
      m2    == (total % 12) + 1
      dim   == DaysInMonth(y2, m2)
  IN  IF date.d <= dim THEN [y |-> y2, m |-> m2, d |-> date.d]
      ELSE IF m2 = 12 THEN [y |-> y2 + 1, m |-> 1, d |-> date.d - dim]
      ELSE [y |-> y2, m |-> m2 + 1, d |-> date.d - dim]

\* Days from 1970-01-01 to the date: Date.getTime() / (1000 * 60 * 60 * 24).
DayNumber(date) ==
  LET y   == IF date.m <= 2 THEN date.y - 1 ELSE date.y
      era == y \div 400
      yoe == y - era * 400
      mp  == IF date.m > 2 THEN date.m - 3 ELSE date.m + 9
      doy == (153 * mp + 2) \div 5 + date.d - 1
      doe == yoe * 365 + yoe \div 4 - yoe \div 100 + doy
  IN  era * 146097 + doe - 719468

DateLess(a, b) ==
  \/ a.y < b.y
  \/ a.y = b.y /\ a.m < b.m
  \/ a.y = b.y /\ a.m = b.m /\ a.d < b.d

-----------------------------------------------------------------------------
(* Errors: what a thrown Error carries. text is the message's template;      *)
(* product is the data product the template's words name ("none" when they   *)
(* name none), months and target what it interpolates; wraps are the         *)
(* prefixes added by the catch blocks the error passed, outermost first.     *)

MkError(code, text, product, months, target) ==
  [code |-> code, text |-> text, product |-> product, months |-> months,
   target |-> target, wraps |-> <<>>]

IsError(v) == "text" \in DOMAIN v

\* new Error(`${prefix}: ${error.message}`): the message is kept, the code is not.
Rethrow(prefix, err) ==
  [err EXCEPT !.code = "none", !.wraps = <<prefix>> \o err.wraps]

\* The rejection of an Earth Engine evaluate() callback.
ProviderError ==
  MkError("none", "Earth Engine evaluation failed", "none", 0, NoValue)

\* The same rejection carrying a connection-refused code, and the errors an
\* evaluate() callback can be rejected with.
ProviderRefused ==
  MkError("ECONNREFUSED", "connect ECONNREFUSED", "none", 0, NoValue)
ProviderErrors == {ProviderError, ProviderRefused}

-----------------------------------------------------------------------------
(* findClosestData (date-based route)                                        *)

\* The default of the parameter maxMonthsSearch.
maxMonthsSearch == 6

DynamicWorld == "GOOGLE/DYNAMICWORLD/V1"

\* An answer of the provider to a count query: a size, or the evaluation fails.
SizeAnswers ==
  [ok : {TRUE}, size : 0..MaxCount] \cup [ok : {FALSE}, size : {0}]

\* getDynamicWorldLandCover: the (lazy) collection of a product over a window.
getDynamicWorldLandCover(startStr, endStr) ==
  [product |-> DynamicWorld, startDate |-> startStr, endDate |-> endStr]

\* The window findClosestData builds for the half-width w around target.
FcdWindow(target, w) ==
  getDynamicWorldLandCover(SetMonthRelative(target, -w), SetMonthRelative(target, w))

\* What findClosestData returns for half-width w.
FcdReturn(target, w) ==
  [collection  |-> FcdWindow(target, w),
   startDate   |-> FcdWindow(target, w).startDate,
   endDate     |-> FcdWindow(target, w).endDate,
   monthsUsed  |-> w * 2]

\* The error thrown after the loop.
FcdNoData(target, maxSearch) ==
  MkError("none", "No satellite data found within N months of D", "none",
          maxSearch * 2, target)

\* The first half-width of the loop.
FcdFirstWindow == 1

\* A loop that takes any answered query for data.
FcdHasData_AnySize(size) == size >= 0

\* The test that ends the loop with a result.
FcdHasData(size) == size > 0

\* checkCollectionSize(collection) against the fixed provider of SpecFcd: the
\* answer assigned to the half-width of the window.
checkCollectionSize(w) == fcdCounts[w]

FcdTargets ==
  { [y |-> 2024, m |-> 1, d |-> 31], [y |-> 2023, m |-> 8, d |-> 15] }

FcdInit ==
  /\ fcdTarget \in FcdTargets
  /\ fcdCounts \in [1..maxMonthsSearch -> SizeAnswers]
  /\ monthsWindow = FcdFirstWindow
  /\ fcdQueries = <<>>
  /\ fcdOut = NoValue

\* One iteration of the loop: build the window, query its count, return it if
\* the count is positive, else go on to the next half-width.
FcdIterate ==
  /\ fcdOut = NoValue
  /\ monthsWindow >= 1
  /\ monthsWindow <= maxMonthsSearch
  /\ fcdQueries' = Append(fcdQueries, monthsWindow)
  /\ LET ans == checkCollectionSize(monthsWindow)
     IN  IF ~ans.ok
         THEN /\ fcdOut' = ProviderError
              /\ UNCHANGED monthsWindow
         ELSE IF FcdHasData(ans.size)
         THEN /\ fcdOut' = FcdReturn(fcdTarget, monthsWindow)
              /\ UNCHANGED monthsWindow
         ELSE /\ monthsWindow' = monthsWindow + 1
              /\ UNCHANGED fcdOut
  /\ UNCHANGED <<fcdTarget, fcdCounts>>

\* The loop ran out of half-widths: throw.
FcdExhausted ==
  /\ fcdOut = NoValue
  /\ monthsWindow > maxMonthsSearch
  /\ fcdOut' = FcdNoData(fcdTarget, maxMonthsSearch)
  /\ UNCHANGED <<fcdTarget, fcdCounts, monthsWindow, fcdQueries>>


-----------------------------------------------------------------------------
(* Year-based route: snapshot and change report                              *)

\* getBiomassData, after a success:true answer: the pools of the answer, each
\* rounded to two decimals. result.agb, result.bgb are E3.
BiomassFromResult(result) ==
  [agb |-> ToFixed2E3(result.agb), bgb |-> ToFixed2E3(result.bgb)]

\* getSOCData, after a success:true answer. result.soc is E3.
SocFromResult(result) == ToFixed2E3(result.soc)

\* Carbon to CO2: the factor 3.67, in E2.
Co2Factor == 367

\* carbonDensity of getCarbonDataForYear (E2).
CarbonDensity(biomassData, soc) == biomassData.agb + biomassData.bgb + soc

\* The data point getCarbonDataForYear returns. areaHa is E3 (the unrounded
\* area POST passes), the pools are E2; every reported number is E2.
CarbonDataForYear(year, areaHa, biomassData, soc) ==
  LET carbonDensity    == CarbonDensity(biomassData, soc)
      totalCarbonStock == carbonDensity * areaHa                  \* E5
  IN  [year               |-> year,
       totalAreaHa        |-> ToFixed2E3(areaHa),
       carbonPools        |-> [agb |-> ToFixed2E2(biomassData.agb),
                               bgb |-> ToFixed2E2(biomassData.bgb),
                               soc |-> ToFixed2E2(soc)],
       totalCarbonDensity |-> ToFixed2E2(carbonDensity),
       totalCarbonStock   |-> ToFixed2E5(totalCarbonStock),
       \* (totalCarbonStock * 3.67).toFixed(2): E5 * E2 / 10^5
       co2Equivalent      |-> MulDivRound(totalCarbonStock, Co2Factor, 100000)]

\* StatusOf with the comparison >= in place of > (an unchanged stock reported
\* as a gain).
StatusOf_GainOnZero(carbonStockChange, gain, loss) ==
  IF carbonStockChange >= 0 THEN gain
  ELSE IF carbonStockChange < 0 THEN loss
  ELSE "No Change"

\* carbonStockChange > 0 ? 'Carbon Gain' : carbonStockChange < 0 ? 'Carbon Loss'
\* : 'No Change' (year-based), 'Increase' / 'Decrease' / 'No Change' (date-based).
StatusOf(carbonStockChange, gain, loss) ==
  IF carbonStockChange > 0 THEN gain
  ELSE IF carbonStockChange < 0 THEN loss
  ELSE "No Change"

\* ((a / d) * 100).toFixed(2) for d > 0, in E2; the quotient is taken in two
\* steps of 100 to stay within the integers.
PercentOf(a, d) ==
  LET q1 == (Abs(a) * 100) \div d
      r1 == (Abs(a) * 100) % d
  IN  Sign(a) * (q1 * 100 + RoundDiv(r1 * 100, d))

\* PercentChange with 100 in place of 0 for an empty start stock.
PercentChange_FullOnEmptyStart(carbonStockChange, startStock) ==
  IF startStock > 0 THEN PercentOf(carbonStockChange, startStock) ELSE 100

\* startData.totalCarbonStock > 0 ? (change / startData.totalCarbonStock) * 100
\* : 0, then toFixed(2). E2 in, E2 out.
PercentChange(carbonStockChange, startStock) ==
  IF startStock > 0 THEN PercentOf(carbonStockChange, startStock) ELSE 0

\* AnnualChangeYears with the whole change in place of 0 for a zero duration.
AnnualChangeYears_WholeOnZero(carbonStockChange, yearsDifference) ==
  IF yearsDifference > 0
  THEN RoundDiv(carbonStockChange, yearsDifference)
  ELSE carbonStockChange

\* yearsDifference > 0 ? carbonStockChange / yearsDifference : 0, then
\* toFixed(2); yearsDifference is a whole number of years (year-based route).
AnnualChangeYears(carbonStockChange, yearsDifference) ==
  IF yearsDifference > 0
  THEN RoundDiv(carbonStockChange, yearsDifference)
  ELSE 0

\* The carbonChange and period of the year-based POST's success response.
YearChangeReport(startData, endData, startYear, endYear) ==
  LET yearsDifference   == endYear - startYear
      carbonStockChange == endData.totalCarbonStock - startData.totalCarbonStock
  IN  [agbChange     |-> ToFixed2E2(endData.carbonPools.agb - startData.carbonPools.agb),
       bgbChange     |-> ToFixed2E2(endData.carbonPools.bgb - startData.carbonPools.bgb),
       socChange     |-> ToFixed2E2(endData.carbonPools.soc - startData.carbonPools.soc),
       densityChange |-> ToFixed2E2(endData.totalCarbonDensity
                                      - startData.totalCarbonDensity),
       totalChange   |-> ToFixed2E2(carbonStockChange),
       percentChange |-> PercentChange(carbonStockChange, startData.totalCarbonStock),
       annualChange  |-> AnnualChangeYears(carbonStockChange, yearsDifference),
       co2EquivalentChange |-> MulDivRound(carbonStockChange, Co2Factor, 100),
       status        |-> StatusOf(carbonStockChange, "Carbon Gain", "Carbon Loss"),
       durationYears |-> yearsDifference,
       durationDays  |-> yearsDifference * 365]

-----------------------------------------------------------------------------
(* Date-based route: snapshot and change report                              *)

DYNAMIC_WORLD_CLASSES ==
  [c \in 0..8 |->
     CASE c = 0 -> "Water" [] c = 1 -> "Trees" [] c = 2 -> "Grass"
       [] c = 3 -> "Flooded vegetation" [] c = 4 -> "Crops"
       [] c = 5 -> "Shrub and scrub" [] c = 6 -> "Built" [] c = 7 -> "Bare"
       [] c = 8 -> "Snow and ice"]

RECURSIVE SumOf(_, _)
\* reduce((sum, item) => sum + item[field], 0) over a sequence of records.
SumOf(items, field) ==
  IF items = <<>> THEN 0
  ELSE Head(items)[field] + SumOf(Tail(items), field)

\* processedStats of getLandClassification. groups: the provider's groups, each
\* [class, sum] with sum in whole square metres; areaHa and percentage are E2.
ProcessedStats(groups) ==
  LET totalArea == SumOf(groups, "sum")
  IN  [i \in 1..Len(groups) |->
         [class      |-> groups[i].class,
          className  |-> DYNAMIC_WORLD_CLASSES[groups[i].class],
          areaHa     |-> ToFixed2E4(groups[i].sum),
          percentage |-> IF totalArea > 0 THEN PercentOf(groups[i].sum, totalArea)
                         ELSE 0]]

\* getBiomassData of the date-based route: 80% / 20% of the total biomass
\* carbon (totalCarbon is E3), each rounded to two decimals.
BiomassFromTotal(totalCarbon) ==
  [agb |-> RoundDiv(totalCarbon * 8, 100), bgb |-> RoundDiv(totalCarbon * 2, 100)]

\* getSOCData of the date-based route: socGperKg * 1.3 * 0.3 * 0.1, rounded to
\* two decimals (socGperKg is E3).
SocFromGperKg(socGperKg) == RoundDiv(socGperKg * 39, 10000)

\* The data point getCarbonDataForDate returns.
CarbonDataForDate(targetDate, areaStatistics, dataQuality, biomassData, soc) ==
  LET areaHa           == SumOf(areaStatistics, "areaHa")           \* E2
      carbonPerHa      == biomassData.agb + biomassData.bgb + soc    \* E2
      totalCarbonStock == carbonPerHa * areaHa                       \* E4
  IN  [date               |-> targetDate,
       totalAreaHa        |-> ToFixed2E2(areaHa),
       landClassification |-> areaStatistics,
       carbonPools        |-> [agb |-> biomassData.agb, bgb |-> biomassData.bgb,
                               soc |-> soc],
       totalCarbonStock   |-> ToFixed2E4(totalCarbonStock),
       dataQuality        |-> [imageCount     |-> dataQuality.imageCount,
                               temporalWindow |-> dataQuality.temporalWindow,
                               dataAvailable  |-> TRUE]]

\* yearsDifference > 0 ? carbonStockChange / yearsDifference : 0, then
\* toFixed(2), with yearsDifference = daysDifference / 365.25:
\* change * 365.25 / days = change * 1461 / (4 * days).
AnnualChangeDays(carbonStockChange, daysDifference) ==
  IF daysDifference > 0
  THEN MulDivRound(carbonStockChange, 1461, 4 * daysDifference)
  ELSE 0

\* The carbonStockChange and timePeriod of the date-based POST's success response.
DateChangeReport(startData, endData, startDate, endDate) ==
  LET daysDifference    == DayNumber(endDate) - DayNumber(startDate)
      carbonStockChange == endData.totalCarbonStock - startData.totalCarbonStock
  IN  [totalChange   |-> ToFixed2E2(carbonStockChange),
       percentChange |-> PercentChange(carbonStockChange, startData.totalCarbonStock),
       annualChange  |-> AnnualChangeDays(carbonStockChange, daysDifference),
       status        |-> StatusOf(carbonStockChange, "Increase", "Decrease"),
       co2Equivalent |-> MulDivRound(carbonStockChange, Co2Factor, 100),
       durationDays  |-> daysDifference,
       \* (daysDifference / 365.25).toFixed(2)
       durationYears |-> MulDivRound(daysDifference, 10000, 36525)]

-----------------------------------------------------------------------------
(* SpecCalc: the snapshot and change arithmetic applied to bounded inputs    *)

Epochs == {1, 2}

\* Polygon areas in hectares, E3: 0.004 ha, 1.004 ha, 100 ha.
CalcAreas == {4, 1004, 100000}

\* Answers of /predict/agb and /predict/soc (E3).
AgbResults ==
  { [agb |-> 0, bgb |-> 0], [agb |-> 50000, bgb |-> 10000],
    [agb |-> 55004, bgb |-> 11000] }
SocResults == { [soc |-> 0], [soc |-> 30000], [soc |-> 33000] }

Years == {2020, 2024}

\* Land-cover groups of calculateAreaStatistics (sum in square metres).
GroupsOptions ==
  { <<>>,
    << [class |-> 1, sum |-> 1000000] >>,
    << [class |-> 1, sum |-> 600040], [class |-> 4, sum |-> 400010] >> }

\* Mean total biomass carbon (t/ha, E3) and mean SOC (g/kg, E3) of the provider.
TotalCarbons == {0, 60000, 62500, 66000}
SocGperKgs == {0, 769231, 846154}

Dates == { [y |-> 2020, m |-> 1, d |-> 1], [y |-> 2024, m |-> 1, d |-> 1] }

CalcQuality == [imageCount |-> 1, temporalWindow |-> 2]

CalcInputs ==
  [route : {"year"}, areaHa : CalcAreas, groups : {[e \in Epochs |-> <<>>]},
   bio : [Epochs -> AgbResults], soc : [Epochs -> SocResults],
   start : Years, end : Years]
  \cup
  [route : {"date"}, areaHa : {0}, groups : [Epochs -> GroupsOptions],
   bio : [Epochs -> TotalCarbons], soc : [Epochs -> SocGperKgs],
   start : Dates, end : Dates]

CalcEpoch(e) == IF e = 1 THEN calcIn.start ELSE calcIn.end

CalcInit ==
  /\ calcIn \in CalcInputs
  /\ calcSnap = [e \in Epochs |-> NoValue]
  /\ calcReport = NoValue

\* getCarbonDataForYear for epoch e, from the answers of the model server.
CalcYearSnapshot(e) ==
  /\ calcIn.route = "year"
  /\ calcSnap[e] = NoValue
  /\ calcSnap' = [calcSnap EXCEPT ![e] =
       CarbonDataForYear(CalcEpoch(e), calcIn.areaHa,
                         BiomassFromResult(calcIn.bio[e]),
                         SocFromResult(calcIn.soc[e]))]
  /\ UNCHANGED <<calcIn, calcReport>>

\* getCarbonDataForDate for epoch e, from the answers of the provider.
CalcDateSnapshot(e) ==
  /\ calcIn.route = "date"
  /\ calcSnap[e] = NoValue
  /\ calcSnap' = [calcSnap EXCEPT ![e] =
       CarbonDataForDate(CalcEpoch(e), ProcessedStats(calcIn.groups[e]),
                         CalcQuality, BiomassFromTotal(calcIn.bio[e]),
                         SocFromGperKg(calcIn.soc[e]))]
  /\ UNCHANGED <<calcIn, calcReport>>

\* POST after Promise.all, year-based.
CalcYearReport ==
  /\ calcIn.route = "year"
  /\ calcReport = NoValue
  /\ \A e \in Epochs : calcSnap[e] # NoValue
  /\ calcReport' = YearChangeReport(calcSnap[1], calcSnap[2], calcIn.start, calcIn.end)
  /\ UNCHANGED <<calcIn, calcSnap>>

\* POST after Promise.all, date-based.
CalcDateReport ==
  /\ calcIn.route = "date"
  /\ calcReport = NoValue
  /\ \A e \in Epochs : calcSnap[e] # NoValue
  /\ calcReport' = DateChangeReport(calcSnap[1], calcSnap[2], calcIn.start, calcIn.end)
  /\ UNCHANGED <<calcIn, calcSnap>>

-----------------------------------------------------------------------------
(* Spec: one request to a monitoring route. Common parts.                    *)

Sentinel2 == "COPERNICUS/S2_SR_HARMONIZED"
Sentinel1 == "COPERNICUS/S1_GRD"
Chirps    == "UCSB-CHG/CHIRPS/DAILY"
Era5      == "ECMWF/ERA5_LAND/MONTHLY_AGGR"

\* Inputs of the request model: polygon areas (E3 ha), model answers.
RouteAreas == {1004, 100000}
RouteAgbResults == { [agb |-> 0, bgb |-> 0], [agb |-> 50000, bgb |-> 10000] }
RouteSocResults == { [soc |-> 0], [soc |-> 30000], [soc |-> 39004] }

\* The locals of an epoch pipeline before it ran.
NoLocals ==
  [monthsWindow |-> 0, size |-> NoValue, fcd |-> NoValue, imageCount |-> NoValue,
   areaStatistics |-> NoValue, features |-> NoValue, biomassData |-> NoValue]

Other(e) == IF e = 1 THEN 2 ELSE 1

\* The epoch of pipeline e: body.startYear / body.endYear (startDate / endDate).
EpochOf(e) == IF e = 1 THEN body.start ELSE body.end

\* !startYear, !startDate: a missing year is 0, a missing date NoValue.
Falsy(v) == IF route = "year" THEN v = 0 ELSE v = NoValue

\* if (!geometry || !startYear || !endYear), if (!geometry || !startDate || !endDate)
BodyInvalid == body.geometry = "missing" \/ Falsy(body.start) \/ Falsy(body.end)

\* NextResponse.json(...) of the handlers.
Response400 ==
  [status |-> 400, error |-> MkError("none", "Missing required parameters", "none", 0, NoValue),
   data |-> NoValue]
Response500(err) == [status |-> 500, error |-> err, data |-> NoValue]
Response200(startData, endData, change) ==
  [status |-> 200, error |-> NoValue,
   data |-> [start |-> startData, end |-> endData, change |-> change]]

\* EpochGoes of pipelines that keep their locals in one place shared by both.
EpochGoes_SharedLocals(e, pc, loc, nd, sn) ==
  /\ epochPc' = [epochPc EXCEPT ![e] = pc]
  /\ epochLoc' = [x \in DOMAIN epochLoc |-> loc]
  /\ noData' = [noData EXCEPT ![e] = nd]
  /\ sent' = [sent EXCEPT ![e] = sn]
  /\ UNCHANGED <<epochOut, allOut>>

\* The pipeline of epoch e goes on to pc with locals loc.
EpochGoes(e, pc, loc, nd, sn) ==
  /\ epochPc' = [epochPc EXCEPT ![e] = pc]
  /\ epochLoc' = [epochLoc EXCEPT ![e] = loc]
  /\ noData' = [noData EXCEPT ![e] = nd]
  /\ sent' = [sent EXCEPT ![e] = sn]
  /\ UNCHANGED <<epochOut, allOut>>

\* AllAfterReject of a combinator that waits for every promise to settle and
\* never rejects (Promise.allSettled).
AllAfterReject_Settled(all, err) == all

\* ee.Geometry.Polygon(geometry.coordinates) and what is computed from it
\* succeed only for a geometry that holds a polygon's coordinates.
GeometryUsable == body.geometry = "polygon"

\* Promise.all after one more of its promises rejected with err: it rejects
\* with the first rejection and ignores what settles later.
AllAfterReject(all, err) ==
  IF all.state = "pending" THEN [state |-> "rejected", error |-> err] ELSE all

\* Promise.all after promise e fulfilled: it fulfils when all of them have.
AllAfterFulfil(all, e, pcs) ==
  IF all.state = "pending" /\ pcs[Other(e)] = "done"
  THEN [state |-> "fulfilled", error |-> NoValue]
  ELSE all

\* EpochFails of a pipeline that starts over after an error instead of throwing.
EpochFails_Retry(e, err, nd, sn) ==
  /\ epochPc' = [epochPc EXCEPT ![e] = IF route = "year" THEN "agb.s2" ELSE "dw.init"]
  /\ noData' = [noData EXCEPT ![e] = nd]
  /\ sent' = [sent EXCEPT ![e] = sn]
  /\ epochLoc' = [epochLoc EXCEPT ![e] = NoLocals]
  /\ UNCHANGED <<epochOut, allOut>>

\* The pipeline of epoch e throws err (after its catch blocks).
EpochFails(e, err, nd, sn) ==
  /\ epochPc' = [epochPc EXCEPT ![e] = "failed"]
  /\ epochOut' = [epochOut EXCEPT ![e] = err]
  /\ allOut' = AllAfterReject(allOut, err)
  /\ noData' = [noData EXCEPT ![e] = nd]
  /\ sent' = [sent EXCEPT ![e] = sn]
  /\ epochLoc' = [epochLoc EXCEPT ![e] = NoLocals]

\* The pipeline of epoch e returns its data point.
EpochResolves(e, snap, nd, sn) ==
  /\ epochPc' = [epochPc EXCEPT ![e] = "done"]
  /\ epochOut' = [epochOut EXCEPT ![e] = snap]
  /\ allOut' = AllAfterFulfil(allOut, e, epochPc)
  /\ noData' = [noData EXCEPT ![e] = nd]
  /\ sent' = [sent EXCEPT ![e] = sn]
  /\ epochLoc' = [epochLoc EXCEPT ![e] = NoLocals]

postVars == <<route, body, isInitialized, authCalls, postPc, totalAreaHa, areaEvals,
              responses>>
epochVars == <<epochPc, epochLoc, epochOut, allOut, noData, sent>>

\* Errors of initializeEarthEngine.
InitErrors ==
  { MkError("none", "GEE credentials not configured", "none", 0, NoValue) }

\* The first step of an epoch pipeline of the route.
FirstPc(r) == IF r = "year" THEN "agb.s2" ELSE "dw.init"

\* Promise.all([...]): both pipelines are called and run to their first await.
StartEpochs ==
  /\ epochPc' = [e \in Epochs |-> FirstPc(route)]
  /\ UNCHANGED <<epochLoc, epochOut, allOut, noData, sent>>

-----------------------------------------------------------------------------
(* Year-based route: feature extraction and inference                        *)

AgbBands ==
  {"B2", "B3", "B4", "B5", "B6", "B7", "B8", "B11", "B12", "NDVI", "VV", "VH",
   "elevation", "slope"}
SocBands ==
  {"B2", "B3", "B4", "B8", "B11", "NDVI", "VV", "VH", "elevation", "slope",
   "aspect", "precip_annual", "temp_mean", "soil_texture", "bulk_density"}
Position == {"latitude", "longitude"}

\* The band a date-filtered collection contributes without a count check.
BandOf(product) == IF product = Chirps THEN "precip_annual" ELSE "temp_mean"

\* The record getSatelliteFeatures returns: result.X || 0 for every band, the
\* centroid's coordinates. present: the bands the provider's result holds.
AgbFeatures(present) ==
  [f \in AgbBands \cup Position |->
     IF f \in Position THEN "centroid" ELSE IF f \in present THEN "mean" ELSE "0"]

\* The record getSOCSatelliteFeatures returns.
SocFeatures(present) ==
  [f \in SocBands \cup Position |->
     IF f \in Position THEN "centroid"
     ELSE IF f \in present THEN "mean"
     ELSE IF f = "bulk_density" THEN "1.3" ELSE "0"]

\* The date-filtered collections of getSOCSatelliteFeatures whose size is not
\* checked, and which of them may hold no observation for the window.
UncheckedProducts == {Chirps, Era5}

NoS2Period ==
  MkError("none", "No Sentinel-2 data available for the period S to E. Try selecting an earlier year.",
          Sentinel2, 0, NoValue)
NoS1Period ==
  MkError("none", "No Sentinel-1 data available for the period S to E. Try selecting an earlier year.",
          Sentinel1, 0, NoValue)
NoS2Year ==
  MkError("none", "No Sentinel-2 data available for year Y. Try selecting a different year.",
          Sentinel2, 0, NoValue)
NoS1Year ==
  MkError("none", "No Sentinel-1 data available for year Y. Try selecting a different year.",
          Sentinel1, 0, NoValue)

ModelServerDown ==
  MkError("none", "Model server is not running. Please start it with: python python/model_server.py",
          "none", 0, NoValue)

\* catch of getBiomassData / getSOCData (what names "biomass" or "SOC").
ModelCatch(what, err) ==
  IF err.code = "ECONNREFUSED" THEN ModelServerDown
  ELSE Rethrow([prefix |-> what, epoch |-> NoValue], err)

\* catch of getCarbonDataForYear.
CarbonYearCatch(year, err) ==
  Rethrow([prefix |-> "Failed to fetch carbon data for year", epoch |-> [year |-> year]],
          err)

\* An error thrown inside getBiomassData (getSOCData) of epoch e, as it leaves
\* getCarbonDataForYear.
YearThrows(e, what, err) == CarbonYearCatch(EpochOf(e), ModelCatch(what, err))

FailedBiomass == "Failed to fetch biomass data"
FailedSoc == "Failed to fetch SOC data"

\* What fetch throws when the connection is refused: an error carrying the
\* code, or one carrying it only in its cause, depending on the fetch in use.
RefusedErrors ==
  { MkError("ECONNREFUSED", "connect ECONNREFUSED", "none", 0, NoValue),
    MkError("none", "fetch failed", "none", 0, NoValue) }

\* The answers of the inference service to POST /predict/agb, /predict/soc.
PredictAnswers(results) ==
  [kind : {"refused", "notOk", "failure", "failureNoReason"}, result : {NoValue}]
  \cup [kind : {"ok"}, result : results]

\* A success:true answer of /predict/agb that holds agb and no bgb:
\* result.bgb.toFixed(2) throws a TypeError.
AgbPartialAnswers == { [kind |-> "okNoBgb", result |-> [agb |-> 50000]] }

\* result.error of a success:false answer that carries one.
ServiceReason == "Feature vector out of range"

\* The error thrown for an answer that is no success: fetch's own error, `Model
\* server error: ${text}`, or result.error || 'Model prediction failed'.
PredictErrors(ans) ==
  IF ans.kind = "refused" THEN RefusedErrors
  ELSE IF ans.kind = "notOk"
  THEN { MkError("none", "Model server error: T", "none", 0, NoValue) }
  ELSE IF ans.kind = "failure"
  THEN { MkError("none", ServiceReason, "none", 0, NoValue) }
  ELSE IF ans.kind = "okNoBgb"
  THEN { MkError("none", "Cannot read properties of undefined (reading 'toFixed')",
                 "none", 0, NoValue) }
  ELSE { MkError("none", "Model prediction failed", "none", 0, NoValue) }

\* s2Collection.size().evaluate of getSatelliteFeatures.
AgbS2Size(e) ==
  /\ route = "year" /\ epochPc[e] = "agb.s2"
  /\ \E ans \in SizeAnswers :
       IF ~ans.ok
       THEN (\E perr \in ProviderErrors :
            EpochFails(e, YearThrows(e, FailedBiomass, perr), noData[e], sent[e]))
       ELSE IF ans.size = 0
       THEN EpochFails(e, YearThrows(e, FailedBiomass, NoS2Period),
                       noData[e] \cup {<<"agb", Sentinel2>>}, sent[e])
       ELSE EpochGoes(e, "agb.s1", epochLoc[e], noData[e], sent[e])
  /\ UNCHANGED postVars

\* s1Collection.size().evaluate of getSatelliteFeatures.
AgbS1Size(e) ==
  /\ route = "year" /\ epochPc[e] = "agb.s1"
  /\ \E ans \in SizeAnswers :
       IF ~ans.ok
       THEN (\E perr \in ProviderErrors :
            EpochFails(e, YearThrows(e, FailedBiomass, perr), noData[e], sent[e]))
       ELSE IF ans.size = 0
       THEN EpochFails(e, YearThrows(e, FailedBiomass, NoS1Period),
                       noData[e] \cup {<<"agb", Sentinel1>>}, sent[e])
       ELSE EpochGoes(e, "agb.centroid", epochLoc[e], noData[e], sent[e])
  /\ UNCHANGED postVars

\* centroid.coordinates().evaluate of getSatelliteFeatures.
AgbCentroid(e) ==
  /\ route = "year" /\ epochPc[e] = "agb.centroid"
  /\ \E ok \in BOOLEAN :
       IF ~ok
       THEN (\E perr \in ProviderErrors :
            EpochFails(e, YearThrows(e, FailedBiomass, perr), noData[e], sent[e]))
       ELSE EpochGoes(e, "agb.stats", epochLoc[e], noData[e], sent[e])
  /\ UNCHANGED postVars

\* stats.evaluate of getSatelliteFeatures, and the record built from its result.
AgbStats(e) ==
  /\ route = "year" /\ epochPc[e] = "agb.stats"
  /\ \/ (\E perr \in ProviderErrors :
            EpochFails(e, YearThrows(e, FailedBiomass, perr), noData[e], sent[e]))
     \/ EpochGoes(e, "agb.predict",
                  [epochLoc[e] EXCEPT !.features = AgbFeatures(AgbBands)],
                  noData[e], sent[e])
  /\ UNCHANGED postVars

\* fetch(/predict/agb) of getBiomassData and what follows it.
AgbPredict(e) ==
  /\ route = "year" /\ epochPc[e] = "agb.predict"
  /\ \E ans \in PredictAnswers(RouteAgbResults) \cup AgbPartialAnswers :
       LET sn == Append(sent[e], [endpoint |-> "/predict/agb",
                                  features |-> epochLoc[e].features,
                                  answer |-> ans.kind,
                                  result |-> ans.result])
       IN  IF ans.kind # "ok"
           THEN \E err \in PredictErrors(ans) :
                  EpochFails(e, YearThrows(e, FailedBiomass, err), noData[e], sn)
           ELSE EpochGoes(e, "soc.s2",
                          [epochLoc[e] EXCEPT !.features = NoValue,
                                              !.biomassData = BiomassFromResult(ans.result)],
                          noData[e], sn)
  /\ UNCHANGED postVars

\* s2Collection.size().evaluate of getSOCSatelliteFeatures.
SocS2Size(e) ==
  /\ route = "year" /\ epochPc[e] = "soc.s2"
  /\ \E ans \in SizeAnswers :
       IF ~ans.ok
       THEN (\E perr \in ProviderErrors :
            EpochFails(e, YearThrows(e, FailedSoc, perr), noData[e], sent[e]))
       ELSE IF ans.size = 0
       THEN EpochFails(e, YearThrows(e, FailedSoc, NoS2Year),
                       noData[e] \cup {<<"soc", Sentinel2>>}, sent[e])
       ELSE EpochGoes(e, "soc.s1", epochLoc[e], noData[e], sent[e])
  /\ UNCHANGED postVars

\* s1Collection.size().evaluate of getSOCSatelliteFeatures.
SocS1Size(e) ==
  /\ route = "year" /\ epochPc[e] = "soc.s1"
  /\ \E ans \in SizeAnswers :
       IF ~ans.ok
       THEN (\E perr \in ProviderErrors :
            EpochFails(e, YearThrows(e, FailedSoc, perr), noData[e], sent[e]))
       ELSE IF ans.size = 0
       THEN EpochFails(e, YearThrows(e, FailedSoc, NoS1Year),
                       noData[e] \cup {<<"soc", Sentinel1>>}, sent[e])
       ELSE EpochGoes(e, "soc.centroid", epochLoc[e], noData[e], sent[e])
  /\ UNCHANGED postVars

\* centroid.coordinates().evaluate of getSOCSatelliteFeatures.
SocCentroid(e) ==
  /\ route = "year" /\ epochPc[e] = "soc.centroid"
  /\ \E ok \in BOOLEAN :
       IF ~ok
       THEN (\E perr \in ProviderErrors :
            EpochFails(e, YearThrows(e, FailedSoc, perr), noData[e], sent[e]))
       ELSE EpochGoes(e, "soc.stats", epochLoc[e], noData[e], sent[e])
  /\ UNCHANGED postVars

\* stats.evaluate of getSOCSatelliteFeatures, and the record built from its
\* result. The CHIRPS and ERA5 collections are filtered by date and reduced
\* with no count check: one that holds no observation for the window makes the
\* evaluation fail or leaves its band out of the result.
SocStats(e) ==
  /\ route = "year" /\ epochPc[e] = "soc.stats"
  /\ \E empty \in SUBSET UncheckedProducts :
       LET nd == noData[e] \cup {<<"soc", p>> : p \in empty}
       IN  \/ (\E perr \in ProviderErrors :
            EpochFails(e, YearThrows(e, FailedSoc, perr), nd, sent[e]))
           \/ EpochGoes(e, "soc.predict",
                        [epochLoc[e] EXCEPT !.features =
                           SocFeatures(SocBands \ {BandOf(p) : p \in empty})],
                        nd, sent[e])
  /\ UNCHANGED postVars

\* fetch(/predict/soc) of getSOCData and what follows it, to the return of
\* getCarbonDataForYear.
SocPredict(e) ==
  /\ route = "year" /\ epochPc[e] = "soc.predict"
  /\ \E ans \in PredictAnswers(RouteSocResults) :
       LET sn == Append(sent[e], [endpoint |-> "/predict/soc",
                                  features |-> epochLoc[e].features,
                                  answer |-> ans.kind,
                                  result |-> ans.result])
       IN  IF ans.kind # "ok"
           THEN \E err \in PredictErrors(ans) :
                  EpochFails(e, YearThrows(e, FailedSoc, err), noData[e], sn)
           ELSE EpochResolves(e,
                  CarbonDataForYear(EpochOf(e), totalAreaHa.ha,
                                    epochLoc[e].biomassData, SocFromResult(ans.result)),
                  noData[e], sn)
  /\ UNCHANGED postVars

-----------------------------------------------------------------------------
(* Date-based route: the pipeline of getCarbonDataForDate                    *)

\* The provider's groups for a polygon of 1 000 060 square metres: no classified
\* pixel, two classes, one class.
RouteGroupsOptions ==
  { <<>>,
    << [class |-> 1, sum |-> 600030], [class |-> 4, sum |-> 400030] >>,
    << [class |-> 1, sum |-> 1000060] >> }
RouteTotalCarbons == {60000, 62500}
RouteSocGperKgs == {769231, 0}

WcmcBiomass == "WCMC/biomass_carbon_density/v1_0"
OpenLandMapSoc == "OpenLandMap/SOL/SOL_ORGANIC-CARBON_USDA-6A1C_M/v02"

\* The reduceRegion query getBiomassData builds from its arguments for a date
\* that depends on its date argument.
BiomassQuery_Dated(geometry, date) ==
  [geometry |-> geometry, band |-> "carbon_tonnes_per_ha", scale |-> 300,
   date |-> date]

\* The reduceRegion query getBiomassData builds from its arguments.
BiomassQuery(geometry, date) ==
  [geometry |-> geometry, band |-> "carbon_tonnes_per_ha", scale |-> 300]

\* The reduceRegion query getSOCData builds from its arguments.
SocQuery(geometry, date) ==
  [geometry |-> geometry, band |-> "b0", scale |-> 250]

\* catch of getCarbonDataForDate.
CarbonDateCatch(targetDate, err) ==
  Rethrow([prefix |-> "Failed to fetch carbon data for", epoch |-> targetDate], err)

\* An error of getLandClassification of epoch e, as it leaves getCarbonDataForDate.
DateThrows(e, err) == CarbonDateCatch(EpochOf(e), err)

\* An error caught by the catch of getBiomassData (getSOCData), as it leaves
\* getCarbonDataForDate.
DateThrowsIn(e, what, err) ==
  CarbonDateCatch(EpochOf(e), Rethrow([prefix |-> what, epoch |-> NoValue], err))

\* getDynamicWorldLandCover, first call: await ensureInitialized().
DwEnsureInit(e) ==
  /\ route = "date" /\ epochPc[e] = "dw.init"
  /\ IF isInitialized
     THEN EpochGoes(e, "dw.fcd", [epochLoc[e] EXCEPT !.monthsWindow = FcdFirstWindow],
                    noData[e], sent[e])
     ELSE EpochGoes(e, "dw.initializing", epochLoc[e], noData[e], sent[e])
  /\ UNCHANGED postVars

\* initializeEarthEngine called by the pipeline completes.
DwInitDone(e) ==
  /\ route = "date" /\ epochPc[e] = "dw.initializing"
  /\ \/ /\ isInitialized' = TRUE
        /\ authCalls' = authCalls + 1
        /\ EpochGoes(e, "dw.fcd", [epochLoc[e] EXCEPT !.monthsWindow = FcdFirstWindow],
                     noData[e], sent[e])
     \/ /\ \E err \in InitErrors : EpochFails(e, DateThrows(e, err), noData[e], sent[e])
        /\ UNCHANGED <<isInitialized, authCalls>>
  /\ UNCHANGED <<route, body, postPc, totalAreaHa, areaEvals, responses>>

\* One iteration of findClosestData's loop.
DwFcdIterate(e) ==
  /\ route = "date" /\ epochPc[e] = "dw.fcd"
  /\ epochLoc[e].monthsWindow <= maxMonthsSearch
  /\ LET w == epochLoc[e].monthsWindow
     IN  \E ans \in SizeAnswers :
           IF ~ans.ok \/ ~GeometryUsable
           THEN EpochFails(e, DateThrows(e, ProviderError), noData[e], sent[e])
           ELSE IF FcdHasData(ans.size)
           THEN EpochGoes(e, "dw.count",
                          [epochLoc[e] EXCEPT !.fcd = FcdReturn(EpochOf(e), w),
                                              !.size = [count |-> ans.size]],
                          noData[e], sent[e])
           ELSE EpochGoes(e, "dw.fcd", [epochLoc[e] EXCEPT !.monthsWindow = w + 1],
                          noData[e], sent[e])
  /\ UNCHANGED postVars

\* findClosestData's loop ran out of half-widths.
DwFcdExhausted(e) ==
  /\ route = "date" /\ epochPc[e] = "dw.fcd"
  /\ epochLoc[e].monthsWindow > maxMonthsSearch
  /\ EpochFails(e, DateThrows(e, FcdNoData(EpochOf(e), maxMonthsSearch)),
                noData[e] \cup {<<"dw", DynamicWorld>>}, sent[e])
  /\ UNCHANGED postVars

\* getLandClassification: const imageCount = await checkCollectionSize(collection).
DwImageCount(e) ==
  /\ route = "date" /\ epochPc[e] = "dw.count"
  /\ \E ans \in SizeAnswers :
       IF ~ans.ok
       THEN EpochFails(e, DateThrows(e, ProviderError), noData[e], sent[e])
       ELSE EpochGoes(e, "dw.area",
                      [epochLoc[e] EXCEPT !.imageCount = [count |-> ans.size]],
                      noData[e], sent[e])
  /\ UNCHANGED postVars

\* getLandClassification: calculateAreaStatistics and processedStats.
DwAreaStats(e) ==
  /\ route = "date" /\ epochPc[e] = "dw.area"
  /\ \/ EpochFails(e, DateThrows(e, ProviderError), noData[e], sent[e])
     \/ \E groups \in RouteGroupsOptions :
          EpochGoes(e, "dw.biomass",
                    [epochLoc[e] EXCEPT !.areaStatistics = ProcessedStats(groups),
                                        !.size = NoValue],
                    noData[e], sent[e])
  /\ UNCHANGED postVars

\* getBiomassData of the date-based route.
DwBiomass(e) ==
  /\ route = "date" /\ epochPc[e] = "dw.biomass"
  /\ \/ EpochFails(e, DateThrowsIn(e, FailedBiomass, ProviderError), noData[e], sent[e])
     \/ \E totalCarbon \in RouteTotalCarbons :
          EpochGoes(e, "dw.soc",
                    [epochLoc[e] EXCEPT !.biomassData = BiomassFromTotal(totalCarbon)],
                    noData[e],
                    Append(sent[e], [endpoint |-> WcmcBiomass,
                                     features |-> BiomassQuery(body.geometry, EpochOf(e)),
                                     answer |-> "ok",
                                     result |-> [value |-> totalCarbon]]))
  /\ UNCHANGED postVars

\* getSOCData of the date-based route and the return of getCarbonDataForDate.
DwSoc(e) ==
  /\ route = "date" /\ epochPc[e] = "dw.soc"
  /\ \/ EpochFails(e, DateThrowsIn(e, FailedSoc, ProviderError), noData[e], sent[e])
     \/ \E socGperKg \in RouteSocGperKgs :
          EpochResolves(e,
            CarbonDataForDate(EpochOf(e), epochLoc[e].areaStatistics,
                              [imageCount     |-> epochLoc[e].imageCount.count,
                               temporalWindow |-> epochLoc[e].fcd.monthsUsed],
                              epochLoc[e].biomassData, SocFromGperKg(socGperKg)),
            noData[e],
            Append(sent[e], [endpoint |-> OpenLandMapSoc,
                             features |-> SocQuery(body.geometry, EpochOf(e)),
                             answer |-> "ok",
                             result |-> [value |-> socGperKg]]))
  /\ UNCHANGED postVars

-----------------------------------------------------------------------------
(* POST of the two routes                                                    *)

\* PostValidate of a year-based handler that starts the two pipelines without
\* computing the area first.
PostValidate_NoArea ==
  /\ postPc = "validate"
  /\ IF BodyInvalid
     THEN /\ responses' = Append(responses, Response400)
          /\ postPc' = "responded"
          /\ UNCHANGED epochVars
     ELSE /\ postPc' = "awaitAll"
          /\ StartEpochs
          /\ UNCHANGED responses
  /\ UNCHANGED <<route, body, isInitialized, authCalls, totalAreaHa, areaEvals>>

\* The body is read and validated; a valid request goes on.
PostValidate ==
  /\ postPc = "validate"
  /\ IF BodyInvalid
     THEN /\ responses' = Append(responses, Response400)
          /\ postPc' = "responded"
          /\ UNCHANGED epochVars
     ELSE IF route = "year"
     THEN /\ postPc' = IF isInitialized THEN "area" ELSE "areaInit"
          /\ UNCHANGED <<responses, epochVars>>
     ELSE /\ postPc' = "awaitAll"
          /\ StartEpochs
          /\ UNCHANGED responses
  /\ UNCHANGED <<route, body, isInitialized, authCalls, totalAreaHa, areaEvals>>

\* calculatePolygonArea: initializeEarthEngine, called by ensureInitialized,
\* completes.
PostAreaInit ==
  /\ postPc = "areaInit"
  /\ \/ /\ isInitialized' = TRUE
        /\ authCalls' = authCalls + 1
        /\ postPc' = "area"
        /\ UNCHANGED responses
     \/ /\ \E err \in InitErrors : responses' = Append(responses, Response500(err))
        /\ postPc' = "responded"
        /\ UNCHANGED <<isInitialized, authCalls>>
  /\ UNCHANGED <<route, body, totalAreaHa, areaEvals, epochVars>>

\* calculatePolygonArea: polygon.area({maxError: 1}).evaluate, then
\* Promise.all([...]) of the year-based POST. No area comes back for a
\* geometry that is no polygon.
PostArea ==
  /\ postPc = "area"
  /\ areaEvals' = areaEvals + 1
  /\ \/ /\ GeometryUsable
        /\ \E ha \in RouteAreas : totalAreaHa' = [ha |-> ha]
        /\ postPc' = "awaitAll"
        /\ StartEpochs
        /\ UNCHANGED responses
     \/ /\ responses' = Append(responses, Response500(ProviderError))
        /\ postPc' = "responded"
        /\ UNCHANGED <<totalAreaHa, epochVars>>
  /\ UNCHANGED <<route, body, isInitialized, authCalls>>

\* The change report of the route's success response.
ChangeReport(startData, endData) ==
  IF route = "year"
  THEN YearChangeReport(startData, endData, body.start, body.end)
  ELSE DateChangeReport(startData, endData, body.start, body.end)

\* Promise.all fulfilled: the success response.
PostRespondOk ==
  /\ postPc = "awaitAll"
  /\ allOut.state = "fulfilled"
  /\ responses' = Append(responses,
       Response200(epochOut[1], epochOut[2], ChangeReport(epochOut[1], epochOut[2])))
  /\ postPc' = "responded"
  /\ UNCHANGED <<route, body, isInitialized, authCalls, totalAreaHa, areaEvals, epochVars>>

\* Promise.all rejected: POST's catch.
PostRespondError ==
  /\ postPc = "awaitAll"
  /\ allOut.state = "rejected"
  /\ responses' = Append(responses, Response500(allOut.error))
  /\ postPc' = "responded"
  /\ UNCHANGED <<route, body, isInitialized, authCalls, totalAreaHa, areaEvals, epochVars>>

\* The requests: a missing year is 0, a missing date NoValue.
EndYear == CHOOSE y \in Years : \A z \in Years : z <= y
EndDate == CHOOSE d \in Dates : \A z \in Dates : ~DateLess(d, z)
\* The geometry of the body: a GeoJSON polygon, none, or an object that holds
\* no polygon coordinates.
Geometries == {"polygon", "missing", "malformed"}
ReqBodies ==
  [route : {"year"}, geometry : Geometries,
   start : Years \cup {0}, end : {EndYear, 0}]
  \cup
  [route : {"date"}, geometry : Geometries,
   start : Dates \cup {NoValue}, end : {EndDate, NoValue}]

ReqInit ==
  /\ \E b \in ReqBodies :
       /\ route = b.route
       /\ body = [geometry |-> b.geometry, start |-> b.start, end |-> b.end]
  /\ isInitialized \in BOOLEAN
  /\ authCalls = IF isInitialized THEN 1 ELSE 0
  /\ postPc = "validate"
  /\ totalAreaHa = NoValue
  /\ areaEvals = 0
  /\ epochPc = [e \in Epochs |-> "idle"]
  /\ epochLoc = [e \in Epochs |-> NoLocals]
  /\ epochOut = [e \in Epochs |-> NoValue]
  /\ allOut = [state |-> "pending", error |-> NoValue]
  /\ noData = [e \in Epochs |-> {}]
  /\ sent = [e \in Epochs |-> <<>>]
  /\ responses = <<>>

-----------------------------------------------------------------------------
(* SpecWin: the windows the year-based feature extraction queries            *)

MaxOf(a, b) == IF a >= b THEN a ELSE b

\* `${year}-01-01`, `${year}-12-31`
YearStart(year) == [y |-> year, m |-> 1, d |-> 1]
YearEnd(year) == [y |-> year, m |-> 12, d |-> 31]

\* AgbEffectiveWindow for a handler that queries the requested year whatever
\* the clock says.
AgbEffectiveWindow_AsRequested(startDate, endDate, now) ==
  [startDate |-> startDate, endDate |-> endDate]

\* effectiveStartDate, effectiveEndDate of getSatelliteFeatures. now: the
\* clock's year and month (1..12).
AgbEffectiveWindow(startDate, endDate, now) ==
  LET requestedYear == startDate.y
      currentYear   == now.y
      currentMonth  == now.m
  IN  IF requestedYear > currentYear
      THEN [startDate |-> YearStart(currentYear - 1),
            endDate   |-> YearEnd(currentYear - 1)]
      ELSE IF requestedYear = currentYear
      THEN [startDate |-> startDate,
            endDate   |-> [y |-> currentYear, m |-> MaxOf(1, currentMonth - 1),
                           d |-> 28]]
      ELSE [startDate |-> startDate, endDate |-> endDate]

\* startDate, endDate of getSOCSatelliteFeatures.
SocEffectiveWindow(year, now) ==
  LET currentYear == now.y
      dataYear    == IF year >= currentYear THEN currentYear - 1 ELSE year
  IN  [startDate |-> YearStart(dataYear), endDate |-> YearEnd(dataYear)]

\* Requested years and clocks.
WinYears == {2023, 2024, 2025, 2026}
NowYears == {2024, 2025}
NowMonths == 1..12

WinInit ==
  /\ winIn \in [year : WinYears, now : [y : NowYears, m : NowMonths]]
  /\ winAgb = NoValue
  /\ winSoc = NoValue

\* getBiomassData calls getSatelliteFeatures with the full year.
WinAgb ==
  /\ winIn # NoValue /\ winAgb = NoValue
  /\ winAgb' = AgbEffectiveWindow(YearStart(winIn.year), YearEnd(winIn.year), winIn.now)
  /\ UNCHANGED <<winIn, winSoc>>

\* getSOCData calls getSOCSatelliteFeatures with the year.
WinSoc ==
  /\ winIn # NoValue /\ winSoc = NoValue
  /\ winSoc' = SocEffectiveWindow(winIn.year, winIn.now)
  /\ UNCHANGED <<winIn, winAgb>>

-----------------------------------------------------------------------------
(* SpecFeat: the feature records built from a provider result that lacks     *)
(* some of its scalars                                                       *)

\* The bands of a configuration's result.
BandsOf(config) == IF config = "agb" THEN AgbBands ELSE SocBands

\* The results of stats.evaluate: every band present but at most two.
FeatInputs ==
  UNION { [config : {c}, present : {BandsOf(c) \ miss : miss \in
             {m \in SUBSET BandsOf(c) : Cardinality(m) <= 2}}] : c \in {"agb", "soc"} }

FeatInit ==
  /\ featIn \in FeatInputs
  /\ featOut = NoValue

\* getSatelliteFeatures returns its record, getBiomassData posts it.
FeatAgbRecord ==
  /\ featIn # NoValue /\ featIn.config = "agb" /\ featOut = NoValue
  /\ featOut' = AgbFeatures(featIn.present)
  /\ UNCHANGED featIn

\* getSOCSatelliteFeatures returns its record, getSOCData posts it.
FeatSocRecord ==
  /\ featIn # NoValue /\ featIn.config = "soc" /\ featOut = NoValue
  /\ featOut' = SocFeatures(featIn.present)
  /\ UNCHANGED featIn

-----------------------------------------------------------------------------
(* SpecCredit: one request to the carbon-credit route /api/carbon            *)

\* A JavaScript number that may be the outcome of a division by zero.
Finite(v) == [kind |-> "finite", v |-> v]
NaN == [kind |-> "NaN", v |-> 0]
PosInfinity == [kind |-> "Infinity", v |-> 0]
NegInfinity == [kind |-> "-Infinity", v |-> 0]

\* Math.round(n / d) for integers n and d > 0: the nearest integer, a tie
\* going up.
MathRoundDiv(n, d) == (2 * n + d) \div (2 * d)

\* Math.round((n / d) * 100) / 100 as an E2 value for E2 n and integer d.
JsQuotient(n, d) ==
  IF d = 0
  THEN IF n = 0 THEN NaN ELSE IF n > 0 THEN PosInfinity ELSE NegInfinity
  ELSE IF d > 0 THEN Finite(MathRoundDiv(n, d))
  ELSE Finite(MathRoundDiv(-n, -d))

\* Math.max(0, x).
JsMax0(x) ==
  IF x.kind = "NaN" THEN NaN
  ELSE IF x.kind = "Infinity" THEN PosInfinity
  ELSE IF x.kind = "-Infinity" THEN Finite(0)
  ELSE Finite(MaxOf(0, x.v))

LANDCOVER_CLASSES ==
  [c \in {10, 20, 30, 40, 50, 60, 70, 80, 90, 95, 100} |->
     CASE c = 10  -> "Tree cover"
       [] c = 20  -> "Shrubland"
       [] c = 30  -> "Grassland"
       [] c = 40  -> "Cropland"
       [] c = 50  -> "Built-up"
       [] c = 60  -> "Bare / sparse vegetation"
       [] c = 70  -> "Snow and ice"
       [] c = 80  -> "Permanent water bodies"
       [] c = 90  -> "Herbaceous wetland"
       [] c = 95  -> "Mangroves"
       [] c = 100 -> "Moss and lichen"]

\* CARBON_COEFFICIENTS[className] || 0, with the defaults of the environment
\* variables (tons CO2e per hectare).
CARBON_COEFFICIENTS(className) ==
  CASE className = "Tree cover" -> 150
    [] className = "Shrubland" -> 50
    [] className = "Grassland" -> 50
    [] className = "Cropland" -> 30
    [] className = "Built-up" -> 5
    [] className = "Bare / sparse vegetation" -> 5
    [] className = "Herbaceous wetland" -> 80
    [] className = "Mangroves" -> 200
    [] className = "Moss and lichen" -> 40
    [] OTHER -> 0

\* processLandCoverData. stats is NoValue when the result holds no groups, else
\* [groups |-> the provider's groups], sum in whole square metres; areaHectares
\* and carbonStock are E2.
processLandCoverData(stats) ==
  IF stats = NoValue THEN <<>>
  ELSE [i \in 1..Len(stats.groups) |->
          LET classValue == stats.groups[i].class
              className  == IF classValue \in DOMAIN LANDCOVER_CLASSES
                            THEN LANDCOVER_CLASSES[classValue] ELSE "Class other"
          IN  [class        |-> classValue,
               className    |-> className,
               areaHectares |-> MathRoundDiv(stats.groups[i].sum, 100),
               carbonStock  |-> MathRoundDiv(stats.groups[i].sum
                                               * CARBON_COEFFICIENTS(className), 100)]]

\* calculateCarbonChange (totals, carbonChange and percentChange are E2).
calculateCarbonChange(historical, current, historicalYear, currentYear) ==
  LET historicalTotalCarbon == SumOf(historical, "carbonStock")
      currentTotalCarbon    == SumOf(current, "carbonStock")
      carbonChange          == currentTotalCarbon - historicalTotalCarbon
      yearsDifference       == currentYear - historicalYear
  IN  [historicalTotalCarbon |-> historicalTotalCarbon,
       currentTotalCarbon    |-> currentTotalCarbon,
       carbonChange          |-> carbonChange,
       annualChange          |-> JsQuotient(carbonChange, yearsDifference),
       percentChange         |-> IF historicalTotalCarbon > 0
                                 THEN MathRoundDiv(carbonChange * 10000,
                                                   historicalTotalCarbon)
                                 ELSE 0]

\* calculateCredits.
calculateCredits(carbonAnalysis) ==
  LET carbonChange     == carbonAnalysis.carbonChange
      potentialCredits == IF carbonChange > 0 THEN carbonChange ELSE 0
  IN  [eligibility |-> IF carbonChange > 0 THEN "Potentially Eligible"
                       ELSE "Not Eligible",
       reason |-> IF carbonChange > 0
                  THEN "Positive carbon sequestration detected. Further verification required."
                  ELSE IF carbonChange < 0
                  THEN "Net carbon loss detected. No credits available."
                  ELSE "No significant carbon change detected.",
       potentialCredits    |-> potentialCredits,
       estimatedValue      |-> [min |-> potentialCredits * 15,
                                max |-> potentialCredits * 30],
       annualSequestration |-> JsMax0(carbonAnalysis.annualChange)]

WorldCover == "ESA/WorldCover/v200"

\* The land-cover query of a getLandCover that selects the map of its year.
LandCoverQuery_Dated(geometry, year) ==
  [collection |-> WorldCover, geometry |-> geometry, band |-> "Map", year |-> year]

\* The land-cover image getLandCover returns for its arguments, with the band
\* POST selects: the query calculateAreaStatistics evaluates.
LandCoverQuery(geometry, year) ==
  [collection |-> WorldCover, geometry |-> geometry, band |-> "Map"]

\* const { geometry, historicalYear = 2015, currentYear = 2021 } = body.
DefaultHistoricalYear == 2015
DefaultCurrentYear == 2021
YearOfPeriod(which) ==
  IF which = "historical"
  THEN IF crBody.historicalYear = NoValue THEN DefaultHistoricalYear
       ELSE crBody.historicalYear.year
  ELSE IF crBody.currentYear = NoValue THEN DefaultCurrentYear
       ELSE crBody.currentYear.year

Periods == {"historical", "current"}
CreditYearArgs == {NoValue, [year |-> 2015], [year |-> 2021]}
CreditBodies ==
  [geometry : Geometries, historicalYear : CreditYearArgs, currentYear : CreditYearArgs]

\* The provider's statistics for a polygon of about one hectare: a result
\* without groups, no classified pixel, trees only, trees and cropland, trees
\* and an unlisted class.
CreditStatsOptions ==
  { NoValue,
    [groups |-> <<>>],
    [groups |-> << [class |-> 10, sum |-> 10030] >>],
    [groups |-> << [class |-> 10, sum |-> 5000], [class |-> 40, sum |-> 5030] >>],
    [groups |-> << [class |-> 10, sum |-> 2000], [class |-> 255, sum |-> 8030] >>] }

\* The two responses of the carbon-credit POST that carry no data.
CreditResponse400 ==
  [status |-> 400, error |-> "Missing required parameter: geometry", data |-> NoValue]
CreditResponse500(err) ==
  [status |-> 500,
   error |-> IF err.text = "" THEN "Failed to estimate carbon credits" ELSE err.text,
   data |-> NoValue]

\* The success response of the carbon-credit POST.
CreditResponse200 ==
  LET historicalData == processLandCoverData(crStats["historical"])
      currentData    == processLandCoverData(crStats["current"])
      carbonAnalysis == calculateCarbonChange(historicalData, currentData,
                                              YearOfPeriod("historical"),
                                              YearOfPeriod("current"))
  IN  [status |-> 200, error |-> "",
       data |-> [historical |-> [year |-> YearOfPeriod("historical"),
                                 landCover |-> historicalData,
                                 totalCarbonStock |-> carbonAnalysis.historicalTotalCarbon],
                 current |-> [year |-> YearOfPeriod("current"),
                              landCover |-> currentData,
                              totalCarbonStock |-> carbonAnalysis.currentTotalCarbon],
                 carbonChange |-> [totalChange |-> carbonAnalysis.carbonChange,
                                   annualChange |-> carbonAnalysis.annualChange,
                                   percentChange |-> carbonAnalysis.percentChange],
                 credits |-> calculateCredits(carbonAnalysis)]]

CreditInit ==
  /\ crBody \in CreditBodies
  /\ crPc = "validate"
  /\ crLog = <<>>
  /\ crStats = [w \in Periods |-> NoValue]
  /\ crResp = NoValue

\* The body is read; a request without geometry is answered 400.
CreditValidate ==
  /\ crPc = "validate"
  /\ IF crBody.geometry = "missing"
     THEN crPc' = "responded" /\ crResp' = CreditResponse400
     ELSE crPc' = "historical.cover" /\ UNCHANGED crResp
  /\ UNCHANGED <<crBody, crLog, crStats>>

\* await getLandCover(geometry, year) of a period: the session is ensured and
\* the image is built, or the call throws and POST answers 500.
CreditLandCover(which) ==
  /\ crPc \in {"historical.cover", "current.cover"}
  /\ which = (IF crPc = "historical.cover" THEN "historical" ELSE "current")
  /\ \/ /\ crBody.geometry = "polygon"
        /\ crPc' = (IF which = "historical" THEN "historical.stats" ELSE "current.stats")
        /\ UNCHANGED crResp
     \/ /\ \E err \in IF crBody.geometry = "polygon" THEN InitErrors ELSE {ProviderError} :
             crResp' = CreditResponse500(err)
        /\ crPc' = "responded"
  /\ UNCHANGED <<crBody, crLog, crStats>>

\* await calculateAreaStatistics(landCover.select('Map'), geometry) of a period.
CreditAreaStats(which) ==
  /\ crPc \in {"historical.stats", "current.stats"}
  /\ which = (IF crPc = "historical.stats" THEN "historical" ELSE "current")
  /\ \/ /\ \E stats \in CreditStatsOptions :
             /\ crStats' = [crStats EXCEPT ![which] = stats]
             /\ crLog' = Append(crLog, [period |-> which,
                                        query  |-> LandCoverQuery(crBody.geometry,
                                                                  YearOfPeriod(which)),
                                        answer |-> stats])
        /\ crPc' = (IF which = "historical" THEN "current.cover" ELSE "respond")
        /\ UNCHANGED crResp
     \/ /\ crResp' = CreditResponse500(ProviderError)
        /\ crPc' = "responded"
        /\ UNCHANGED <<crStats, crLog>>
  /\ UNCHANGED crBody

\* The statistics are processed and the success response is returned.
CreditRespond ==
  /\ crPc = "respond"
  /\ crResp' = CreditResponse200
  /\ crPc' = "responded"
  /\ UNCHANGED <<crBody, crLog, crStats>>

-----------------------------------------------------------------------------
(* SpecPage: the page, its analysis requests and the drawn polygon of its map *)

\* The geometries a user draws, and those an edit turns them into.
Shapes == {"A", "B"}
Feature(g) == [geometry |-> g]
PageYears == {2020, 2024}
MaxInFlight == 2

\* What the fetch of /api/carbon-monitoring resolves with: whether the status
\* is 2xx and what the body holds.
PageResponses ==
  { [ok |-> TRUE,  body |-> "data"],
    [ok |-> TRUE,  body |-> "invalid"],
    [ok |-> FALSE, body |-> "error"],
    [ok |-> FALSE, body |-> "empty"],
    [ok |-> FALSE, body |-> "invalid"] }

ErrorOf(message) == [message |-> message]

\* disabled={!polygon || loading} of a button that ignores loading.
AnalyzeEnabled_IgnoresLoading == polygon # NoValue

\* The Analyze button is enabled: disabled={!polygon || loading}.
AnalyzeEnabled == polygon # NoValue /\ ~loading

\* catch and finally of analyzePolygon for the call at position i.
AnalyzeCatch(i, message) ==
  /\ error' = ErrorOf(message)
  /\ loading' = FALSE
  /\ pending' = [k \in 1..(Len(pending) - 1) |->
                   IF k < i THEN pending[k] ELSE pending[k + 1]]
  /\ UNCHANGED <<polygon, carbonData, pageStartYear, pageEndYear, drawnItems>>

PageInit ==
  /\ polygon = NoValue /\ loading = FALSE
  /\ carbonData = NoValue /\ error = NoValue
  /\ pageStartYear = 2020 /\ pageEndYear = 2024
  /\ pending = <<>>
  /\ drawnItems = {}

\* onChange of the two selects.
PageSetStartYear ==
  /\ \E y \in PageYears : pageStartYear' = y
  /\ UNCHANGED <<polygon, loading, carbonData, error, pageEndYear, pending, drawnItems>>

PageSetEndYear ==
  /\ \E y \in PageYears : pageEndYear' = y
  /\ UNCHANGED <<polygon, loading, carbonData, error, pageStartYear, pending, drawnItems>>

\* L.Draw.Event.CREATED and handlePolygonCreated.
DrawCreated ==
  /\ \E g \in Shapes :
       /\ drawnItems' = {Feature(g)}
       /\ polygon' = Feature(g)
  /\ error' = NoValue
  /\ UNCHANGED <<loading, carbonData, pageStartYear, pageEndYear, pending>>

\* L.Draw.Event.EDITED: the drawn layer gets another shape and the page is told.
DrawEdited ==
  /\ drawnItems # {}
  /\ \E layer \in drawnItems : \E g \in Shapes \ {layer.geometry} :
       /\ drawnItems' = (drawnItems \ {layer}) \cup {Feature(g)}
       /\ polygon' = Feature(g)
  /\ error' = NoValue
  /\ UNCHANGED <<loading, carbonData, pageStartYear, pageEndYear, pending>>

\* L.Draw.Event.DELETED.
DrawDeleted ==
  /\ drawnItems # {}
  /\ drawnItems' = {}
  /\ UNCHANGED <<polygon, loading, carbonData, error, pageStartYear, pageEndYear, pending>>

\* A click on Analyze: analyzePolygon runs to its fetch.
PageAnalyze ==
  /\ AnalyzeEnabled
  /\ Len(pending) < MaxInFlight
  /\ loading' = TRUE
  /\ error' = NoValue
  /\ carbonData' = NoValue
  /\ pending' = Append(pending, [geometry |-> polygon.geometry, startYear |-> pageStartYear,
                                 endYear |-> pageEndYear, stage |-> "fetch",
                                 response |-> NoValue])
  /\ UNCHANGED <<polygon, pageStartYear, pageEndYear, drawnItems>>

\* The fetch of a call settles: it rejects, or it resolves with a response
\* whose body is then read.
PageFetchSettles ==
  \E i \in DOMAIN pending :
    /\ pending[i].stage = "fetch"
    /\ \/ AnalyzeCatch(i, "Failed to fetch")
       \/ /\ \E resp \in PageResponses :
               pending' = [pending EXCEPT ![i].stage = "json", ![i].response = resp]
          /\ UNCHANGED <<polygon, loading, carbonData, error, pageStartYear, pageEndYear,
                         drawnItems>>

\* response.json() of an OK response settles.
PageJsonOk ==
  \E i \in DOMAIN pending :
    /\ pending[i].stage = "json" /\ pending[i].response.ok
    /\ IF pending[i].response.body = "data"
       THEN /\ carbonData' = [startYear |-> pending[i].startYear,
                              endYear   |-> pending[i].endYear,
                              geometry  |-> pending[i].geometry]
            /\ loading' = FALSE
            /\ pending' = [k \in 1..(Len(pending) - 1) |->
                             IF k < i THEN pending[k] ELSE pending[k + 1]]
            /\ UNCHANGED <<polygon, error, pageStartYear, pageEndYear, drawnItems>>
       ELSE AnalyzeCatch(i, "Unexpected token in JSON")

\* response.json() of a non-OK response settles and the error is thrown.
PageJsonError ==
  \E i \in DOMAIN pending :
    /\ pending[i].stage = "json" /\ ~pending[i].response.ok
    /\ AnalyzeCatch(i, CASE pending[i].response.body = "error" -> "error of the response"
                         [] pending[i].response.body = "empty" ->
                              "Failed to analyze carbon stock"
                         [] OTHER -> "Unexpected token in JSON")

-----------------------------------------------------------------------------
(* Specifications                                                            *)

FcdIdle ==
  /\ fcdTarget = NoValue /\ fcdCounts = NoValue /\ monthsWindow = 0
  /\ fcdQueries = <<>> /\ fcdOut = NoValue

CalcIdle == calcIn = NoValue /\ calcSnap = NoValue /\ calcReport = NoValue

ReqIdle ==
  /\ route = "none" /\ body = NoValue /\ isInitialized = FALSE /\ authCalls = 0
  /\ postPc = "idle" /\ totalAreaHa = NoValue /\ areaEvals = 0
  /\ epochPc = NoValue /\ epochLoc = NoValue /\ epochOut = NoValue
  /\ allOut = NoValue /\ noData = NoValue /\ sent = NoValue
  /\ responses = <<>>

WinIdle == winIn = NoValue /\ winAgb = NoValue /\ winSoc = NoValue

FeatIdle == featIn = NoValue /\ featOut = NoValue

CredIdle ==
  /\ crBody = NoValue /\ crPc = "idle" /\ crLog = <<>>
  /\ crStats = NoValue /\ crResp = NoValue

PageIdle ==
  /\ polygon = NoValue /\ loading = FALSE /\ carbonData = NoValue /\ error = NoValue
  /\ pageStartYear = 0 /\ pageEndYear = 0 /\ pending = <<>> /\ drawnItems = {}

InitFcd == FcdInit /\ CalcIdle /\ ReqIdle /\ WinIdle /\ FeatIdle /\ CredIdle /\ PageIdle
NextFcd ==
  \/ FcdIterate /\ UNCHANGED <<calcVars, reqVars, winVars, featVars, credVars, pageVars>>
  \/ FcdExhausted /\ UNCHANGED <<calcVars, reqVars, winVars, featVars, credVars, pageVars>>
SpecFcd == InitFcd /\ [][NextFcd]_vars

InitCalc == CalcInit /\ FcdIdle /\ ReqIdle /\ WinIdle /\ FeatIdle /\ CredIdle /\ PageIdle
NextCalc ==
  \/ \E e \in Epochs : CalcYearSnapshot(e) /\ UNCHANGED <<fcdVars, reqVars, winVars, featVars, credVars, pageVars>>
  \/ \E e \in Epochs : CalcDateSnapshot(e) /\ UNCHANGED <<fcdVars, reqVars, winVars, featVars, credVars, pageVars>>
  \/ CalcYearReport /\ UNCHANGED <<fcdVars, reqVars, winVars, featVars, credVars, pageVars>>
  \/ CalcDateReport /\ UNCHANGED <<fcdVars, reqVars, winVars, featVars, credVars, pageVars>>
SpecCalc == InitCalc /\ [][NextCalc]_vars

InitWin == WinInit /\ FcdIdle /\ CalcIdle /\ ReqIdle /\ FeatIdle /\ CredIdle /\ PageIdle
NextWin ==
  \/ WinAgb /\ UNCHANGED <<fcdVars, calcVars, reqVars, featVars, credVars, pageVars>>
  \/ WinSoc /\ UNCHANGED <<fcdVars, calcVars, reqVars, featVars, credVars, pageVars>>
SpecWin == InitWin /\ [][NextWin]_vars

InitFeat == FeatInit /\ FcdIdle /\ CalcIdle /\ ReqIdle /\ WinIdle /\ CredIdle /\ PageIdle
NextFeat ==
  \/ FeatAgbRecord /\ UNCHANGED <<fcdVars, calcVars, reqVars, winVars, credVars, pageVars>>
  \/ FeatSocRecord /\ UNCHANGED <<fcdVars, calcVars, reqVars, winVars, credVars, pageVars>>
SpecFeat == InitFeat /\ [][NextFeat]_vars

InitCredit == CreditInit /\ FcdIdle /\ CalcIdle /\ ReqIdle /\ WinIdle /\ FeatIdle /\ PageIdle
NextCredit ==
  \/ CreditValidate /\ UNCHANGED <<fcdVars, calcVars, reqVars, winVars, featVars, pageVars>>
  \/ \E which \in Periods :
       CreditLandCover(which) /\ UNCHANGED <<fcdVars, calcVars, reqVars, winVars, featVars, pageVars>>
  \/ \E which \in Periods :
       CreditAreaStats(which) /\ UNCHANGED <<fcdVars, calcVars, reqVars, winVars, featVars, pageVars>>
  \/ CreditRespond /\ UNCHANGED <<fcdVars, calcVars, reqVars, winVars, featVars, pageVars>>
SpecCredit == InitCredit /\ [][NextCredit]_vars

InitPage ==
  PageInit /\ FcdIdle /\ CalcIdle /\ ReqIdle /\ WinIdle /\ FeatIdle /\ CredIdle
NextPage ==
  \/ PageSetStartYear /\ UNCHANGED <<fcdVars, calcVars, reqVars, winVars, featVars, credVars>>
  \/ PageSetEndYear /\ UNCHANGED <<fcdVars, calcVars, reqVars, winVars, featVars, credVars>>
  \/ DrawCreated /\ UNCHANGED <<fcdVars, calcVars, reqVars, winVars, featVars, credVars>>
  \/ DrawEdited /\ UNCHANGED <<fcdVars, calcVars, reqVars, winVars, featVars, credVars>>
  \/ DrawDeleted /\ UNCHANGED <<fcdVars, calcVars, reqVars, winVars, featVars, credVars>>
  \/ PageAnalyze /\ UNCHANGED <<fcdVars, calcVars, reqVars, winVars, featVars, credVars>>
  \/ PageFetchSettles /\ UNCHANGED <<fcdVars, calcVars, reqVars, winVars, featVars, credVars>>
  \/ PageJsonOk /\ UNCHANGED <<fcdVars, calcVars, reqVars, winVars, featVars, credVars>>
  \/ PageJsonError /\ UNCHANGED <<fcdVars, calcVars, reqVars, winVars, featVars, credVars>>
SpecPage == InitPage /\ [][NextPage]_vars

\* Every fetch and every read of a body settles.
SpecPageLive ==
  /\ InitPage /\ [][NextPage]_vars
  /\ WF_vars(PageFetchSettles /\ UNCHANGED <<fcdVars, calcVars, reqVars, winVars, featVars, credVars>>)
  /\ WF_vars(PageJsonOk /\ UNCHANGED <<fcdVars, calcVars, reqVars, winVars, featVars, credVars>>)
  /\ WF_vars(PageJsonError /\ UNCHANGED <<fcdVars, calcVars, reqVars, winVars, featVars, credVars>>)

Init == ReqInit /\ FcdIdle /\ CalcIdle /\ WinIdle /\ FeatIdle /\ CredIdle /\ PageIdle
Next ==
  \/ PostValidate /\ UNCHANGED <<fcdVars, calcVars, winVars, featVars, credVars, pageVars>>
  \/ PostAreaInit /\ UNCHANGED <<fcdVars, calcVars, winVars, featVars, credVars, pageVars>>
  \/ PostArea /\ UNCHANGED <<fcdVars, calcVars, winVars, featVars, credVars, pageVars>>
  \/ PostRespondOk /\ UNCHANGED <<fcdVars, calcVars, winVars, featVars, credVars, pageVars>>
  \/ PostRespondError /\ UNCHANGED <<fcdVars, calcVars, winVars, featVars, credVars, pageVars>>
  \/ \E e \in Epochs : AgbS2Size(e) /\ UNCHANGED <<fcdVars, calcVars, winVars, featVars, credVars, pageVars>>
  \/ \E e \in Epochs : AgbS1Size(e) /\ UNCHANGED <<fcdVars, calcVars, winVars, featVars, credVars, pageVars>>
  \/ \E e \in Epochs : AgbCentroid(e) /\ UNCHANGED <<fcdVars, calcVars, winVars, featVars, credVars, pageVars>>
  \/ \E e \in Epochs : AgbStats(e) /\ UNCHANGED <<fcdVars, calcVars, winVars, featVars, credVars, pageVars>>
  \/ \E e \in Epochs : AgbPredict(e) /\ UNCHANGED <<fcdVars, calcVars, winVars, featVars, credVars, pageVars>>
  \/ \E e \in Epochs : SocS2Size(e) /\ UNCHANGED <<fcdVars, calcVars, winVars, featVars, credVars, pageVars>>
  \/ \E e \in Epochs : SocS1Size(e) /\ UNCHANGED <<fcdVars, calcVars, winVars, featVars, credVars, pageVars>>
  \/ \E e \in Epochs : SocCentroid(e) /\ UNCHANGED <<fcdVars, calcVars, winVars, featVars, credVars, pageVars>>
  \/ \E e \in Epochs : SocStats(e) /\ UNCHANGED <<fcdVars, calcVars, winVars, featVars, credVars, pageVars>>
  \/ \E e \in Epochs : SocPredict(e) /\ UNCHANGED <<fcdVars, calcVars, winVars, featVars, credVars, pageVars>>
  \/ \E e \in Epochs : DwEnsureInit(e) /\ UNCHANGED <<fcdVars, calcVars, winVars, featVars, credVars, pageVars>>
  \/ \E e \in Epochs : DwInitDone(e) /\ UNCHANGED <<fcdVars, calcVars, winVars, featVars, credVars, pageVars>>
  \/ \E e \in Epochs : DwFcdIterate(e) /\ UNCHANGED <<fcdVars, calcVars, winVars, featVars, credVars, pageVars>>
  \/ \E e \in Epochs : DwFcdExhausted(e) /\ UNCHANGED <<fcdVars, calcVars, winVars, featVars, credVars, pageVars>>
  \/ \E e \in Epochs : DwImageCount(e) /\ UNCHANGED <<fcdVars, calcVars, winVars, featVars, credVars, pageVars>>
  \/ \E e \in Epochs : DwAreaStats(e) /\ UNCHANGED <<fcdVars, calcVars, winVars, featVars, credVars, pageVars>>
  \/ \E e \in Epochs : DwBiomass(e) /\ UNCHANGED <<fcdVars, calcVars, winVars, featVars, credVars, pageVars>>
  \/ \E e \in Epochs : DwSoc(e) /\ UNCHANGED <<fcdVars, calcVars, winVars, featVars, credVars, pageVars>>
Spec == Init /\ [][Next]_vars

-----------------------------------------------------------------------------
(* Claims about findClosestData (SpecFcd)                                    *)

FcdReturned == fcdOut # NoValue /\ ~IsError(fcdOut)
FcdAnsweredZero(w) == fcdCounts[w].ok /\ fcdCounts[w].size = 0

\* C1: findClosestData returns the window of the smallest half-width w whose
\* observation count is > 0 (every smaller half-width answered 0), and it
\* queried the counts of the half-widths 1..w, in this order, and of no other.
C1_SmallestWindow ==
  /\ FcdReturned =>
       LET w == Len(fcdQueries)
       IN  /\ w \in 1..maxMonthsSearch
           /\ fcdCounts[w].ok /\ fcdCounts[w].size > 0
           /\ \A v \in 1..(w - 1) : FcdAnsweredZero(v)
           /\ fcdQueries = [i \in 1..w |-> i]
           /\ fcdOut.monthsUsed = 2 * w
           /\ fcdOut.startDate = SetMonthRelative(fcdTarget, -w)
           /\ fcdOut.endDate = SetMonthRelative(fcdTarget, w)
           /\ fcdOut.collection.product = DynamicWorld
           /\ fcdOut.collection.startDate = fcdOut.startDate
           /\ fcdOut.collection.endDate = fcdOut.endDate
  /\ fcdOut = NoValue =>
       /\ fcdQueries = [i \in 1..(monthsWindow - 1) |-> i]
       /\ \A v \in 1..(monthsWindow - 1) : FcdAnsweredZero(v)

\* C1 witness: the window of half-width 3 was returned although a larger
\* half-width holds more observations.
C1_Witness ==
  /\ FcdReturned /\ fcdOut.monthsUsed = 6
  /\ fcdCounts[5].ok /\ fcdCounts[5].size > fcdCounts[3].size

\* C9: when every half-width 1..6 answers zero observations, findClosestData
\* ends after exactly 6 count queries with a NoDataFound error that names the
\* data product, the target date and a 12-unit maximum window.
C9_NoDataNamesProduct ==
  ((\A w \in 1..maxMonthsSearch : FcdAnsweredZero(w)) /\ fcdOut # NoValue) =>
     /\ IsError(fcdOut)
     /\ Len(fcdQueries) = 6
     /\ fcdOut.months = 12
     /\ fcdOut.target = fcdTarget
     /\ fcdOut.product = DynamicWorld

-----------------------------------------------------------------------------
(* Claims about the snapshot arithmetic of getCarbonDataForYear (SpecCalc)   *)

CalcYearSnaps ==
  IF calcIn.route = "year" THEN {calcSnap[e] : e \in Epochs} \ {NoValue} ELSE {}

\* C2: in every snapshot returned by getCarbonDataForYear the reported values
\* satisfy totalCarbonStock = totalCarbonDensity * totalAreaHa (to the two
\* reported decimals) and totalCarbonDensity = agb + bgb + soc.
C2_StockIsDensityTimesArea ==
  \A s \in CalcYearSnaps :
    /\ s.totalCarbonStock = RoundDiv(s.totalCarbonDensity * s.totalAreaHa, 100)
    /\ s.totalCarbonDensity = s.carbonPools.agb + s.carbonPools.bgb + s.carbonPools.soc

\* C3: in every snapshot returned by getCarbonDataForYear the reported
\* co2Equivalent is the reported totalCarbonStock * 3.67 (to the two reported
\* decimals).
C3_Co2IsStockTimesFactor ==
  \A s \in CalcYearSnaps :
    s.co2Equivalent = RoundDiv(s.totalCarbonStock * 367, 100)

-----------------------------------------------------------------------------
(* Claims about one request to a monitoring route (Spec)                     *)

\* The success responses sent so far.
OkResponses == {r \in {responses[i] : i \in DOMAIN responses} : r.status = 200}

IsSnapshot(v) == v # NoValue /\ ~IsError(v)

\* C4: in the year-based route the polygon area is evaluated at most once, it
\* has been evaluated (exactly once) before either epoch pipeline has left its
\* idle state or sent anything, and both snapshots of a success response carry
\* the same totalAreaHa, the two-decimal value of that one evaluation.
C4_AreaOnceBeforeEpochs ==
  route = "year" =>
    /\ areaEvals <= 1
    /\ \A e \in Epochs :
         (epochPc[e] # "idle" \/ sent[e] # <<>> \/ noData[e] # {}) =>
           (areaEvals = 1 /\ totalAreaHa # NoValue)
    /\ \A r \in OkResponses :
         /\ areaEvals = 1
         /\ r.data.start.totalAreaHa = r.data.end.totalAreaHa
         /\ r.data.start.totalAreaHa = ToFixed2E3(totalAreaHa.ha)

\* C4 witness: a success response of the year-based route for a polygon whose
\* area has more than two decimals, with different stocks in the two epochs.
C4_Witness ==
  /\ route = "year" /\ areaEvals = 1 /\ totalAreaHa = [ha |-> 1004]
  /\ \E r \in OkResponses :
       /\ r.data.start.totalAreaHa = 100 /\ r.data.end.totalAreaHa = 100
       /\ r.data.start.totalCarbonStock # r.data.end.totalCarbonStock

AnyFailed == route \in {"year", "date"} /\ \E e \in Epochs : epochPc[e] = "failed"

\* C5: fail-fast. At most one response is ever sent, and every response holds
\* either no snapshot or both. Once an epoch pipeline has failed, Promise.all
\* is rejected, so the only response still possible is the error response;
\* and when the request has been answered, the one response is an error
\* (status 500) without data.
C5_FailFast ==
  route \in {"year", "date"} =>
    /\ Len(responses) <= 1
    /\ \A i \in DOMAIN responses :
         \/ responses[i].data = NoValue
         \/ IsSnapshot(responses[i].data.start) /\ IsSnapshot(responses[i].data.end)
    /\ AnyFailed =>
         /\ allOut.state = "rejected" /\ IsError(allOut.error)
         /\ postPc \in {"awaitAll", "responded"}
         /\ postPc = "responded" =>
              /\ Len(responses) = 1
              /\ responses[1].status = 500
              /\ IsError(responses[1].error)
              /\ responses[1].data = NoValue

\* C5 witness: one epoch pipeline returned its snapshot, the other failed, and
\* the request was answered.
C5_Witness ==
  /\ route = "year" /\ postPc = "responded"
  /\ epochPc[1] = "done" /\ IsSnapshot(epochOut[1])
  /\ epochPc[2] = "failed"
  /\ Len(responses) = 1

GainLabel == IF route = "year" THEN "Carbon Gain" ELSE "Increase"
LossLabel == IF route = "year" THEN "Carbon Loss" ELSE "Decrease"

\* C6: in every success response the status is the gain label iff the reported
\* totalChange is > 0, the loss label iff it is < 0, and 'No Change' iff it
\* is 0; and the reported totalChange is the difference of the reported stocks.
C6_StatusIffSign ==
  \A r \in OkResponses :
    LET c == r.data.change
    IN  /\ c.status \in {GainLabel, LossLabel, "No Change"}
        /\ c.status = GainLabel <=> c.totalChange > 0
        /\ c.status = LossLabel <=> c.totalChange < 0
        /\ c.status = "No Change" <=> c.totalChange = 0
        /\ c.totalChange = r.data.end.totalCarbonStock - r.data.start.totalCarbonStock

\* C6 witness: a success response of each kind is possible; this one reports
\* equal, non-empty stocks and 'No Change'.
C6_Witness ==
  \E r \in OkResponses :
    /\ r.data.change.status = "No Change"
    /\ r.data.start.totalCarbonStock > 0
    /\ r.data.change.totalChange = 0

\* C7: in every success response percentChange is 0 when the start stock is 0,
\* whatever the end stock; when the start stock is > 0 it is the two-decimal
\* value of totalChange / start stock * 100 (at most half a unit of the last
\* decimal away from it); 9000 -> 9900 gives 10.00. A request whose start
\* stock is 0 is answered with a success response when neither pipeline fails.
C7_PercentChange ==
  /\ \A r \in OkResponses :
       LET a == r.data.change.totalChange
           s == r.data.start.totalCarbonStock
           p == r.data.change.percentChange
           ph == Abs(p) \div 100
           pl == Abs(p) % 100
           D == 100 * (Abs(a) * 100 - ph * s) - pl * s
       IN  /\ s >= 0
           /\ s = 0 => p = 0
           /\ s > 0 => /\ 2 * Abs(D) <= s
                       /\ p # 0 => Sign(p) = Sign(a)
           /\ (s = 900000 /\ r.data.end.totalCarbonStock = 990000) => p = 1000
  /\ (route \in {"year", "date"} /\ postPc = "responded"
        /\ \A e \in Epochs : epochPc[e] = "done") =>
       (Len(responses) = 1 /\ responses[1].status = 200)

\* C7 witness: a success response whose start stock is 0 and whose end stock
\* is not.
C7_Witness ==
  \E r \in OkResponses :
    /\ r.data.start.totalCarbonStock = 0
    /\ r.data.end.totalCarbonStock > 0
    /\ r.data.change.percentChange = 0

\* C8: in every success response annualChange is 0 when the two epochs are
\* equal; when the end epoch is later it is the two-decimal value of
\* totalChange / years between the epochs (whole years in the year-based
\* route, days / 365.25 in the date-based one); 900 over 4 years gives 225.00.
C8_AnnualChange ==
  \A r \in OkResponses :
    LET a == r.data.change.totalChange
        p == r.data.change.annualChange
    IN  /\ body.start = body.end => p = 0
        /\ route = "year" =>
             LET years == body.end - body.start
             IN  /\ r.data.change.durationYears = years
                 /\ years > 0 => 2 * Abs(p * years - a) <= years
                 /\ (years = 4 /\ a = 90000) => p = 22500
        /\ route = "date" =>
             LET days == DayNumber(body.end) - DayNumber(body.start)
             IN  /\ r.data.change.durationDays = days
                 /\ days > 0 => 2 * Abs(p * 4 * days - a * 1461) <= 4 * days

\* C8 witness: a success response for equal epochs whose stocks differ.
C8_Witness ==
  \E r \in OkResponses :
    /\ body.start = body.end
    /\ r.data.change.totalChange # 0
    /\ r.data.change.annualChange = 0

EndpointOf(cfg) == IF cfg = "agb" THEN "/predict/agb" ELSE "/predict/soc"

\* C10: whenever a date-filtered data product required for a feature vector
\* of the year-based route holds no observation for the window, the epoch
\* pipeline fails with an error naming that product and no inference request
\* is sent for that feature vector.
C10_EmptyProductFails ==
  route = "year" =>
    \A e \in Epochs : \A pair \in noData[e] :
      /\ epochPc[e] = "failed"
      /\ epochOut[e].product = pair[2]
      /\ \A i \in DOMAIN sent[e] : sent[e][i].endpoint # EndpointOf(pair[1])

\* The requests epoch e sent to the inference service, with their answers.
SentOf(e) == {sent[e][i] : i \in DOMAIN sent[e]}

\* C11: a refused connection to the inference service ends the epoch with the
\* 'Model server is not running ...' error, a success:false answer ends it
\* with an error carrying the service's reason, and the two differ.
C11_RefusedIsServiceUnavailable ==
  route = "year" =>
    \A e \in Epochs : \A rq \in SentOf(e) :
      /\ rq.answer = "refused" =>
           /\ epochPc[e] = "failed"
           /\ epochOut[e].text = ModelServerDown.text
      /\ rq.answer = "failure" =>
           /\ epochPc[e] = "failed"
           /\ epochOut[e].text = ServiceReason
           /\ epochOut[e].text # ModelServerDown.text

\* No call to the provider or the inference service has been issued.
NoExternalCall ==
  /\ areaEvals = 0
  /\ \A e \in Epochs : epochPc[e] = "idle" /\ sent[e] = <<>> /\ noData[e] = {}

\* C12: a request whose geometry or either epoch is missing or malformed is
\* answered with status 400 and no external call is issued for it.
C12_InvalidRequestRejected ==
  (route \in {"year", "date"} /\ (BodyInvalid \/ body.geometry = "malformed")) =>
    /\ NoExternalCall
    /\ postPc = "responded" => (Len(responses) = 1 /\ responses[1].status = 400)

InferenceEndpoints == {"/predict/agb", "/predict/soc"}

\* The state part of C13.
C13_NoRetryState ==
  route \in {"year", "date"} =>
    /\ \A e \in Epochs :
         /\ \A ep \in InferenceEndpoints :
              Cardinality({i \in DOMAIN sent[e] : sent[e][i].endpoint = ep}) <= 1
         /\ \A i \in DOMAIN sent[e] :
              sent[e][i].answer # "ok" => (i = Len(sent[e]) /\ epochPc[e] = "failed")
         /\ epochPc[e] = "failed" => IsError(epochOut[e])
    /\ AnyFailed => OkResponses = {}

\* The step part of C13: a failed pipeline stays failed and issues nothing more.
C13_NoRetryStep ==
  route \in {"year", "date"} =>
    \A e \in Epochs :
      epochPc[e] = "failed" =>
        /\ epochPc'[e] = "failed"
        /\ sent'[e] = sent[e]
        /\ noData'[e] = noData[e]
        /\ epochOut'[e] = epochOut[e]

\* C13: no automatic retry. Each inference endpoint is called at most once per
\* epoch, a call that failed is the last thing its pipeline does (the pipeline
\* stays failed and issues no further call), and a request that observed a
\* failure never ends with a success response.
C13_NoRetry == []C13_NoRetryState /\ [][C13_NoRetryStep]_vars

\* C13 witness: the soil-carbon inference call of epoch 1 was answered with an
\* HTTP error after its biomass call had succeeded, and the request has been
\* answered.
C13_Witness ==
  /\ route = "year" /\ postPc = "responded"
  /\ epochPc[1] = "failed" /\ Len(sent[1]) = 2
  /\ sent[1][1].answer = "ok" /\ sent[1][2].answer = "notOk"
  /\ Len(responses) = 1 /\ responses[1].status = 500

-----------------------------------------------------------------------------
(* Claims about the effective windows (SpecWin)                              *)

\* C14: when the requested year is after the current year, both feature
\* extractions query the previous year of the clock, January 1 to December 31.
C14_FutureYearFallsBack ==
  (winIn # NoValue /\ winIn.year > winIn.now.y) =>
    LET full == [startDate |-> YearStart(winIn.now.y - 1),
                 endDate   |-> YearEnd(winIn.now.y - 1)]
    IN  /\ winAgb # NoValue => winAgb = full
        /\ winSoc # NoValue => winSoc = full

\* C14 witness: a year two years ahead of the clock, both windows computed.
C14_Witness ==
  /\ winIn # NoValue /\ winIn.year = winIn.now.y + 2
  /\ winAgb # NoValue /\ winSoc # NoValue
  /\ winAgb.startDate.y = winIn.now.y - 1

\* The last day of the calendar month before the clock's month.
EndOfPreviousMonth(now) ==
  IF now.m = 1 THEN [y |-> now.y - 1, m |-> 12, d |-> 31]
  ELSE [y |-> now.y, m |-> now.m - 1, d |-> DaysInMonth(now.y, now.m - 1)]

\* C15: when the requested year is the current year, the window queried for
\* the biomass features ends on the last day of the previous calendar month,
\* for every current month.
C15_CurrentYearEndsPreviousMonth ==
  (winIn # NoValue /\ winIn.year = winIn.now.y /\ winAgb # NoValue) =>
    winAgb.endDate = EndOfPreviousMonth(winIn.now)

-----------------------------------------------------------------------------
(* Claims about the snapshot arithmetic of getCarbonDataForDate (SpecCalc)   *)

CalcDateSnaps ==
  IF calcIn.route = "date" THEN {calcSnap[e] : e \in Epochs} \ {NoValue} ELSE {}

\* C16: in every snapshot of the date-based route, whose BGB has no model of
\* its own, bgb = agb * 0.2 up to the two-decimal rounding (one unit of the
\* last decimal).
C16_BgbIsRatioOfAgb ==
  \A s \in CalcDateSnaps :
    Abs(5 * s.carbonPools.bgb - s.carbonPools.agb) <= 5

-----------------------------------------------------------------------------
(* Claims about the provider session (Spec)                                  *)

\* C17: under every interleaving of the concurrent calls to ensureInitialized
\* the authentication and initialisation with the provider are performed at
\* most once in the process, and the session flag, once set, is never reset.
C17_InitializedOnce ==
  /\ [](route \in {"year", "date"} => authCalls <= 1)
  /\ [][isInitialized => isInitialized']_vars

-----------------------------------------------------------------------------
(* Claims about the feature records (SpecFeat)                               *)

\* C18: every named scalar feature that the provider's result lacks appears
\* in the record posted to the inference service with the value 0, and the
\* record is produced.
C18_MissingScalarIsZero ==
  (featIn # NoValue /\ featOut # NoValue) =>
    /\ DOMAIN featOut = BandsOf(featIn.config) \cup Position
    /\ \A f \in BandsOf(featIn.config) \ featIn.present : featOut[f] = "0"

-----------------------------------------------------------------------------
(* Claims about the date-based route (Spec)                                  *)

\* C19: both snapshots of every success response of the date-based route
\* carry the same totalAreaHa, whatever land-cover statistics the provider
\* returned for the two dates.
C19_DateRouteSameArea ==
  route = "date" =>
    \A r \in OkResponses : r.data.start.totalAreaHa = r.data.end.totalAreaHa

\* C20: the imageCount reported with a resolved window is the count observed
\* for that window when findClosestData selected it, and so is >= 1 in every
\* snapshot of a success response.
C20_ImageCountIsObserved ==
  route = "date" =>
    /\ \A e \in Epochs :
         epochPc[e] = "dw.area" => epochLoc[e].imageCount = epochLoc[e].size
    /\ \A r \in OkResponses :
         /\ r.data.start.dataQuality.imageCount >= 1
         /\ r.data.end.dataQuality.imageCount >= 1

-----------------------------------------------------------------------------
(* Further claims about the year-based route (Spec)                          *)

\* C21: when /predict/agb answers success:true with agb and without bgb, the
\* epoch does not fail, and its snapshot holds bgb = agb * 0.2.
C21_MissingBgbIsDerived ==
  route = "year" =>
    \A e \in Epochs : \A rq \in SentOf(e) :
      rq.answer = "okNoBgb" =>
        /\ epochPc[e] # "failed"
        /\ epochPc[e] = "done" =>
             5 * epochOut[e].carbonPools.bgb = epochOut[e].carbonPools.agb

\* The step part of C22.
C22_NoFurtherCall ==
  (route = "year" \/ route = "date") =>
    \A e \in Epochs :
      epochPc[Other(e)] = "failed" =>
        epochPc'[e] \in {epochPc[e], "failed", "done"}

\* C22: once the pipeline of one epoch has failed, the pipeline of the other
\* epoch issues no further external call: the call it is waiting for may end
\* (the pipeline fails or returns), but it does not go on to a next call.
C22_OtherEpochCancelled == [][C22_NoFurtherCall]_vars

\* C23: the 'Model server is not running ...' outcome is reported for an epoch
\* only if a call of that epoch to the inference service was refused; no
\* failure of the feature extraction is reported that way.
C23_ServiceUnavailableOnlyIfRefused ==
  route = "year" =>
    \A e \in Epochs :
      (epochPc[e] = "failed" /\ epochOut[e].text = ModelServerDown.text) =>
        \E rq \in SentOf(e) : rq.answer = "refused"

-----------------------------------------------------------------------------
(* Further claims about the effective windows (SpecWin)                      *)

\* C24: for every requested year and every clock, the biomass and the
\* soil-carbon feature extraction of one epoch query the same effective year.
C24_SameEffectiveYear ==
  (winIn # NoValue /\ winAgb # NoValue /\ winSoc # NoValue) =>
    /\ winAgb.startDate.y = winSoc.startDate.y
    /\ winAgb.endDate.y = winSoc.endDate.y

-----------------------------------------------------------------------------
(* Interleaving independence of the year-based route (Spec)                  *)

\* The snapshot of epoch e as a function of the request, the one area and the
\* answers the inference service gave to that epoch's own two requests.
SnapshotFromAnswers(e) ==
  CarbonDataForYear(EpochOf(e), totalAreaHa.ha,
                    BiomassFromResult(sent[e][1].result),
                    SocFromResult(sent[e][2].result))

\* The state part of C25: the success response is that function of the answers.
C25_ReportFromAnswers ==
  route = "year" =>
    \A r \in OkResponses :
      /\ \A e \in Epochs : Len(sent[e]) = 2
      /\ r.data.start = SnapshotFromAnswers(1)
      /\ r.data.end = SnapshotFromAnswers(2)
      /\ r.data.change = YearChangeReport(SnapshotFromAnswers(1), SnapshotFromAnswers(2),
                                          body.start, body.end)

\* The step part of C25: a step of one running pipeline leaves the locals, the
\* requests, the outcome of the other pipeline and the area unchanged.
C25_NoSharedState ==
  route = "year" =>
    \A e \in Epochs :
      (epochPc[e] # "idle" /\ epochPc'[e] # epochPc[e]) =>
        /\ epochPc'[Other(e)] = epochPc[Other(e)]
        /\ epochLoc'[Other(e)] = epochLoc[Other(e)]
        /\ sent'[Other(e)] = sent[Other(e)]
        /\ noData'[Other(e)] = noData[Other(e)]
        /\ epochOut'[Other(e)] = epochOut[Other(e)]
        /\ totalAreaHa' = totalAreaHa

\* C25: the success report of the year-based route is a function of the
\* request and of the answers each pipeline received to its own calls, the
\* same under every interleaving of the two pipelines, which share no mutable
\* state.
C25_InterleavingIndependent ==
  []C25_ReportFromAnswers /\ [][C25_NoSharedState]_vars

\* C25 witness: a success response for two different years whose pipelines
\* received different answers from the inference service.
C25_Witness ==
  /\ route = "year" /\ body.start # body.end
  /\ OkResponses # {}
  /\ sent[1][1].result # sent[2][1].result
  /\ sent[1][2].result # sent[2][2].result

-----------------------------------------------------------------------------
(* The date-based route's pools do not depend on the dates (Spec)            *)

\* The provider gave the two pipelines the same answers to their queries.
SameAnswers == \A i \in 1..2 : sent[1][i].result = sent[2][i].result

\* C26: in a success response of the date-based route the biomass and the
\* soil-carbon query of the start snapshot are the queries of the end snapshot,
\* whatever the two dates; when the provider answered them identically the
\* agb, bgb and soc of the two snapshots are equal, and totalChange is
\* non-zero only if the two snapshots' areas differ.
C26_PoolsIgnoreDates ==
  route = "date" =>
    \A r \in OkResponses :
      /\ \A e \in Epochs : Len(sent[e]) = 2
      /\ \A i \in 1..2 : /\ sent[1][i].endpoint = sent[2][i].endpoint
                         /\ sent[1][i].features = sent[2][i].features
      /\ SameAnswers =>
           /\ r.data.start.carbonPools = r.data.end.carbonPools
           /\ r.data.change.totalChange # 0 =>
                r.data.start.totalAreaHa # r.data.end.totalAreaHa

\* C26 witness: a success response for two different dates and identical
\* provider answers whose totalChange is non-zero because the areas differ.
C26_Witness ==
  /\ route = "date" /\ body.start # body.end
  /\ \E r \in OkResponses :
       /\ SameAnswers
       /\ r.data.start.carbonPools.agb > 0
       /\ r.data.change.totalChange # 0
       /\ r.data.start.totalAreaHa # r.data.end.totalAreaHa

-----------------------------------------------------------------------------
(* Claims about the carbon-credit route (SpecCredit)                         *)

CreditSucceeded == crResp # NoValue /\ crResp.status = 200

\* The provider answered the land-cover queries of the two periods identically.
CreditSameAnswers == crLog[1].answer = crLog[2].answer

C28_AnnualChangeWellDefined ==
  CreditSucceeded =>
    LET change  == crResp.data.carbonChange
        credits == crResp.data.credits
    IN  /\ change.annualChange.kind = "finite"
        /\ crResp.data.historical.year = crResp.data.current.year =>
             change.annualChange = Finite(0)
        /\ credits.annualSequestration = Finite(MaxOf(0, change.annualChange.v))
        /\ credits.potentialCredits = MaxOf(0, change.totalChange)
        /\ credits.eligibility = "Potentially Eligible" <=> change.totalChange > 0

\* The part of C28 that does not involve the duration.
C28_CreditsFromChange ==
  CreditSucceeded =>
    LET change  == crResp.data.carbonChange
        credits == crResp.data.credits
    IN  /\ credits.potentialCredits = MaxOf(0, change.totalChange)
        /\ credits.eligibility = "Potentially Eligible" <=> change.totalChange > 0
        /\ crResp.data.historical.year # crResp.data.current.year =>
             /\ change.annualChange.kind = "finite"
             /\ credits.annualSequestration = Finite(MaxOf(0, change.annualChange.v))

-----------------------------------------------------------------------------
(* Claims about the page and its map (SpecPage, SpecPageLive)                *)

\* At most one analysis is in flight, and one is in flight exactly while
\* loading.
C29_OneInFlight ==
  /\ Len(pending) <= 1
  /\ loading <=> pending # <<>>

\* Starting an analysis clears the previous error and result; an analysis that
\* ends leaves loading false and exactly one of carbonData and error set.
C29_StartAndEnd ==
  /\ Len(pending') > Len(pending) =>
       loading' /\ error' = NoValue /\ carbonData' = NoValue
  /\ Len(pending') < Len(pending) =>
       /\ ~loading'
       /\ (carbonData' # NoValue) # (error' # NoValue)

C30_MapAndPageAgree ==
  /\ Cardinality(drawnItems) <= 1
  /\ polygon # NoValue <=> drawnItems # {}
  /\ polygon # NoValue => drawnItems = {polygon}

\* The part of C30 that holds: at most one drawn polygon, and a drawn polygon
\* is the page's polygon.
C30_DrawnIsPagePolygon ==
  /\ Cardinality(drawnItems) <= 1
  /\ drawnItems # {} => drawnItems = {polygon}

\* An analysis is in flight for a polygon while the map holds no polygon.
C30_AnalyzeAfterDelete ==
  ~(drawnItems = {} /\ pending # <<>> /\ pending[1].stage = "fetch")

====
